---------------------------- MODULE Spec2Model ----------------------------
(***************************************************************************)
(* Model of the EndBASIC tokenizer (core/src/lexer.rs): the Lexer, its     *)
(* one-character look-ahead over the character reader, and the             *)
(* PeekableLexer adapter.                                                  *)
(*                                                                         *)
(* A character is a one-element string; a non-ASCII character is named by  *)
(* its code point ("U+AC00").  A Rust String is a sequence of characters.  *)
(***************************************************************************)
EXTENDS Integers, Sequences, FiniteSets, TLC

VARIABLES
    input,      \* the characters the byte source holds (fixed in a behaviour)
    faulty,     \* TRUE: the byte source fails once `input` is delivered
    lexer,      \* Lexer { input: Peekable<CharReader>, next_pos_watcher }
    wrapped,    \* TRUE once Lexer::peekable() has moved the lexer into a PeekableLexer
    peeked,     \* PeekableLexer::peeked : Option<TokenSpan>
    op,         \* the operation that ran last
    fetched,    \* TRUE when that operation called Lexer::read
    result,     \* what that operation returned
    prev,       \* what the operation before it returned
    before,     \* the lexer as it was when the last operation started
    returned,   \* how many results read and consume_peeked have handed out
    echo,       \* the returned token as the caller prints it: format!("{}", token)
    term,       \* TerminalConsole's key handler task, its two channels and their users
    out,        \* TerminalConsole's output state and stdout
    lcd,        \* ST7735SLcd: the DC pin, the SPI bus and the call in progress
    enc         \* ST7735SLcd::encode: the colour given and the pixel returned

lexVars == <<input, faulty, lexer, wrapped, peeked, op, fetched, result, prev, before,
             returned, echo>>

vars == <<input, faulty, lexer, wrapped, peeked, op, fetched, result, prev, before,
          returned, echo, term, out, lcd, enc>>

\* The value of the variable of a part of the program that is not running.
NotRunning == <<>>

(***************************************************************************)
(* Bounds of the model.                                                    *)
(***************************************************************************)
MaxLen == 4

(***************************************************************************)
(* Characters.                                                             *)
(***************************************************************************)
LowerLetters == <<"a","b","c","d","e","f","g","h","i","j","k","l","m",
                  "n","o","p","q","r","s","t","u","v","w","x","y","z">>
UpperLetters == <<"A","B","C","D","E","F","G","H","I","J","K","L","M",
                  "N","O","P","Q","R","S","T","U","V","W","X","Y","Z">>
DigitChars == <<"0","1","2","3","4","5","6","7","8","9">>

Range(s) == { s[i] : i \in DOMAIN s }

\* Letters outside ASCII: HANGUL SYLLABLE GA (3 bytes in UTF-8, no case),
\* LATIN SMALL/CAPITAL LETTER E WITH ACUTE (2 bytes each), LATIN SMALL
\* LETTER DOTLESS I (2 bytes, its upper case is the ASCII letter I).
WideLetters == {"U+AC00", "U+00E9", "U+00C9", "U+0131"}

\* char::is_ascii_digit
is_ascii_digit(ch) == ch \in Range(DigitChars)

\* char::is_alphanumeric, on the characters of the model
is_alphanumeric(ch) ==
    ch \in Range(LowerLetters) \cup Range(UpperLetters) \cup Range(DigitChars) \cup WideLetters

\* CharOps::is_space
is_space(ch) == ch \in {" ", "\t", "\r"}

\* CharOps::is_separator
is_separator(ch) ==
    \/ ch \in {"\n", ":", "(", ")", "'", "=", "<", ">", ";", ",", "+", "-", "*", "/", "^"}
    \/ is_space(ch)

\* CharOps::is_word
is_word(ch) == ch = "_" \/ is_alphanumeric(ch)

\* char::len_utf8: the bytes a character takes in a String
len_utf8(ch) ==
    IF ch = "U+AC00" THEN 3
    ELSE IF ch \in {"U+00E9", "U+00C9", "U+0131"} THEN 2
    ELSE 1

\* String::len: the length of a String in bytes
RECURSIVE StrLen(_)
StrLen(s) == IF s = <<>> THEN 0 ELSE len_utf8(Head(s)) + StrLen(Tail(s))

\* char::to_uppercase
UpperCh(ch) ==
    IF ch \in Range(LowerLetters)
    THEN UpperLetters[CHOOSE i \in DOMAIN LowerLetters : LowerLetters[i] = ch]
    ELSE IF ch = "U+00E9" THEN "U+00C9"
    ELSE IF ch = "U+0131" THEN "I"
    ELSE ch

\* str::to_uppercase
to_uppercase(s) == [i \in DOMAIN s |-> UpperCh(s[i])]

\* The decimal value of an ASCII digit
DigitVal(ch) == (CHOOSE i \in DOMAIN DigitChars : DigitChars[i] = ch) - 1

(***************************************************************************)
(* Positions and the character reader (crate::reader).                     *)
(***************************************************************************)
TAB_LENGTH == 8

LineCol(l, c) == [line |-> l, col |-> c]

\* The position that follows a character read at `pos`.
NextPos(pos, ch) ==
    IF ch = "\n" THEN LineCol(pos.line + 1, 1)
    ELSE IF ch = "\t"
         THEN LineCol(pos.line, pos.col + TAB_LENGTH - ((pos.col - 1) % TAB_LENGTH))
    ELSE LineCol(pos.line, pos.col + 1)

\* An item of the reader's iterator: Some(Ok(CharSpan)), Some(Err(e)) or None.
ChItem(ch, pos) == [k |-> "ch",   ch |-> ch, pos |-> pos,          e |-> ""]
ErrItem(e)      == [k |-> "err",  ch |-> "", pos |-> LineCol(0,0), e |-> e]
NoneItem        == [k |-> "none", ch |-> "", pos |-> LineCol(0,0), e |-> ""]

\* CharReader::from: nothing read, the next position is 1:1.
NewReader == [idx |-> 0, pos |-> LineCol(1, 1), errTaken |-> FALSE]

\* CharReader::next.  The source's error is handed out once; the reader answers
\* every later call with an error of kind Other.  Exhaustion is permanent.
CharReaderNext(rd) ==
    IF rd.idx < Len(input)
    THEN LET ch == input[rd.idx + 1] IN
         [rd   |-> [rd EXCEPT !.idx = @ + 1, !.pos = NextPos(rd.pos, ch)],
          item |-> ChItem(ch, rd.pos)]
    ELSE IF faulty
    THEN [rd   |-> [rd EXCEPT !.errTaken = TRUE],
          item |-> ErrItem(IF rd.errTaken THEN "Other" ELSE "InvalidData")]
    ELSE [rd |-> rd, item |-> NoneItem]

(***************************************************************************)
(* std::iter::Peekable over the reader: Lexer::input.                      *)
(***************************************************************************)
NoPk == [some |-> FALSE, item |-> NoneItem]

\* Lexer::from
NewLexer == [rd |-> NewReader, pk |-> NoPk]

\* self.input.peek()
InputPeek(L) ==
    IF L.pk.some THEN [L |-> L, item |-> L.pk.item]
    ELSE LET n == CharReaderNext(L.rd) IN
         [L |-> [rd |-> n.rd, pk |-> [some |-> TRUE, item |-> n.item]], item |-> n.item]

\* self.input.next()
InputNext(L) ==
    IF L.pk.some THEN [L |-> [L EXCEPT !.pk = NoPk], item |-> L.pk.item]
    ELSE LET n == CharReaderNext(L.rd) IN
         [L |-> [L EXCEPT !.rd = n.rd], item |-> n.item]

\* *self.next_pos_watcher.borrow()
NextPosWatcher(L) == L.rd.pos

\* The number of characters the lexer has taken out of `input`.
Consumed(L) == L.rd.idx - (IF L.pk.some /\ L.pk.item.k = "ch" THEN 1 ELSE 0)

(***************************************************************************)
(* Tokens.                                                                 *)
(***************************************************************************)
Tok(t)          == [t |-> t, v |-> <<>>]
TokBad(msg)     == [t |-> "Bad", v |-> msg]
TokBoolean(b)   == [t |-> "Boolean", v |-> <<b>>]
TokInteger(i)   == [t |-> "Integer", v |-> <<i>>]
TokDouble(d)    == [t |-> "Double", v |-> d]
TokText(s)      == [t |-> "Text", v |-> s]
TokLabel(s)     == [t |-> "Label", v |-> s]
\* VarRef::new(name, vtype)
TokSymbol(s, vtype) == [t |-> "Symbol", v |-> [name |-> s, vtype |-> vtype]]

\* TokenSpan::new inside Ok(..), and Err(e)
OkSpan(token, pos, length) ==
    [k |-> "ok", token |-> token, pos |-> pos, length |-> length, e |-> ""]
ErrRes(e) ==
    [k |-> "err", token |-> Tok("-"), pos |-> LineCol(0,0), length |-> 0, e |-> e]
NoRes ==
    [k |-> "none", token |-> Tok("-"), pos |-> LineCol(0,0), length |-> 0, e |-> ""]

Ret(L, r) == [L |-> L, r |-> r]

\* F applied to the value of v, which is computed once.
Bind(v, F(_)) == CHOOSE r \in { F(x) : x \in {v} } : TRUE


(***************************************************************************)
(* Lexer (core/src/lexer.rs).  Each operator takes the lexer and returns   *)
(* the lexer it leaves behind together with the io::Result it returns.     *)
(***************************************************************************)

\* HandleBadLoop with the separator taken by next() instead of seen by peek().
RECURSIVE HandleBadLoop_EatSeparator(_, _, _, _)
HandleBadLoop_EatSeparator(L, msg, first_pos, len) ==
    Bind(InputNext(L), LAMBDA n :
    IF n.item.k = "ch" /\ is_separator(n.item.ch)
    THEN Ret(n.L, OkSpan(TokBad(msg), first_pos, len))
    ELSE IF n.item.k = "ch"
    THEN HandleBadLoop_EatSeparator(n.L, msg, first_pos, len + 1)
    ELSE IF n.item.k = "err"
    THEN Ret(n.L, ErrRes(n.item.e))
    ELSE Ret(n.L, OkSpan(TokBad(msg), first_pos, len)))

\* handle_bad_read's loop: skip to the next separator, counting in `len`.
RECURSIVE HandleBadLoop(_, _, _, _)
HandleBadLoop(L, msg, first_pos, len) ==
    Bind(InputPeek(L), LAMBDA p :
    IF p.item.k = "ch" /\ is_separator(p.item.ch)
    THEN Ret(p.L, OkSpan(TokBad(msg), first_pos, len))
    ELSE IF p.item.k = "ch"
    THEN HandleBadLoop(InputNext(p.L).L, msg, first_pos, len + 1)
    ELSE IF p.item.k = "err"
    THEN LET n == InputNext(p.L) IN Ret(n.L, ErrRes(n.item.e))
    ELSE Ret(p.L, OkSpan(TokBad(msg), first_pos, len)))

\* handle_bad_read with its count started at 0.
handle_bad_read_FromZero(L, msg, first_pos) == HandleBadLoop(L, msg, first_pos, 0)

\* Lexer::handle_bad_read
handle_bad_read(L, msg, first_pos) == HandleBadLoop(L, msg, first_pos, 1)

\* consume_rest_of_line with its Eof stamped one column off.
RECURSIVE consume_rest_of_line_EofShifted(_)
consume_rest_of_line_EofShifted(L) ==
    Bind(InputNext(L), LAMBDA n :
    IF n.item.k = "none"
    THEN Ret(n.L, OkSpan(Tok("Eof"),
                         LineCol(NextPosWatcher(n.L).line, NextPosWatcher(n.L).col + 1), 0))
    ELSE IF n.item.k = "ch" /\ n.item.ch = "\n"
    THEN Ret(n.L, OkSpan(Tok("Eol"), n.item.pos, 1))
    ELSE IF n.item.k = "err"
    THEN Ret(n.L, ErrRes(n.item.e))
    ELSE consume_rest_of_line_EofShifted(n.L))

\* consume_rest_of_line that ends the comment at a ':' as well.
RECURSIVE consume_rest_of_line_StopsAtColon(_)
consume_rest_of_line_StopsAtColon(L) ==
    Bind(InputNext(L), LAMBDA n :
    IF n.item.k = "none"
    THEN Ret(n.L, OkSpan(Tok("Eof"), NextPosWatcher(n.L), 0))
    ELSE IF n.item.k = "ch" /\ n.item.ch \in {"\n", ":"}
    THEN Ret(n.L, OkSpan(Tok("Eol"), n.item.pos, 1))
    ELSE IF n.item.k = "err"
    THEN Ret(n.L, ErrRes(n.item.e))
    ELSE consume_rest_of_line_StopsAtColon(n.L))

\* Lexer::consume_rest_of_line
RECURSIVE consume_rest_of_line(_)
consume_rest_of_line(L) ==
    Bind(InputNext(L), LAMBDA n :
    IF n.item.k = "none"
    THEN Ret(n.L, OkSpan(Tok("Eof"), NextPosWatcher(n.L), 0))
    ELSE IF n.item.k = "ch" /\ n.item.ch = "\n"
    THEN Ret(n.L, OkSpan(Tok("Eol"), n.item.pos, 1))
    ELSE IF n.item.k = "err"
    THEN Ret(n.L, ErrRes(n.item.e))
    ELSE consume_rest_of_line(n.L))

I32_MAX == 2147483647

\* str::parse::<i32> on a run of ASCII digits: its value, or the overflow error.
RECURSIVE ParseI32Acc(_, _)
ParseI32Acc(s, acc) ==
    IF s = <<>> THEN [ok |-> TRUE, v |-> acc]
    ELSE LET d == DigitVal(Head(s)) IN
         IF acc > (I32_MAX - d) \div 10
         THEN [ok |-> FALSE, v |-> <<": number too large to fit in target type">>]
         ELSE ParseI32Acc(Tail(s), acc * 10 + d)

\* str::parse::<i32> that answers the largest i32 for what does not fit.
ParseI32_Saturating(s) ==
    LET i == ParseI32Acc(s, 0) IN
    IF i.ok THEN i ELSE [ok |-> TRUE, v |-> I32_MAX]

ParseI32(s) == ParseI32Acc(s, 0)

RECURSIVE StripLeadingZeros(_)
StripLeadingZeros(s) ==
    IF s # <<>> /\ Head(s) = "0" THEN StripLeadingZeros(Tail(s)) ELSE s

RECURSIVE StripTrailingZeros(_)
StripTrailingZeros(s) ==
    IF s # <<>> /\ s[Len(s)] = "0"
    THEN StripTrailingZeros(SubSeq(s, 1, Len(s) - 1)) ELSE s

\* str::parse::<f64> on digits '.' digits: the decimal number written, as its
\* integral and fractional digits without the zeros that do not change it.
ParseF64(s) ==
    LET dot == CHOOSE i \in DOMAIN s : s[i] = "." IN
    [ip |-> StripLeadingZeros(SubSeq(s, 1, dot - 1)),
     fp |-> StripTrailingZeros(SubSeq(s, dot + 1, Len(s)))]

\* NumberEnd with the token stamped with the reader's position, not first.pos.
NumberEnd_ReaderPos(L, first, s, found_dot) ==
    IF found_dot
    THEN IF s[Len(s)] = "."
         THEN handle_bad_read(L, <<"Unknown character: ", ".">>, first.pos)
         ELSE Ret(L, OkSpan(TokDouble(ParseF64(s)), NextPosWatcher(L), StrLen(s)))
    ELSE LET i == ParseI32(s) IN
         IF i.ok
         THEN Ret(L, OkSpan(TokInteger(i.v), NextPosWatcher(L), StrLen(s)))
         ELSE handle_bad_read(L, <<"Bad integer ">> \o s \o i.v, first.pos)

\* consume_number after its loop: the literal `s` is complete.
NumberEnd(L, first, s, found_dot) ==
    IF found_dot
    THEN IF s[Len(s)] = "."
         THEN handle_bad_read(L, <<"Unknown character: ", ".">>, first.pos)
         ELSE Ret(L, OkSpan(TokDouble(ParseF64(s)), first.pos, StrLen(s)))
    ELSE LET i == ParseI32(s) IN
         IF i.ok
         THEN Ret(L, OkSpan(TokInteger(i.v), first.pos, StrLen(s)))
         ELSE handle_bad_read(L, <<"Bad integer ">> \o s \o i.v, first.pos)

\* NumberLoop with a reader error taken for the end of the literal.
RECURSIVE NumberLoop_ErrAsEnd(_, _, _, _)
NumberLoop_ErrAsEnd(L, first, s, found_dot) ==
    Bind(InputPeek(L), LAMBDA p :
    IF p.item.k = "ch"
    THEN LET ch == p.item.ch IN
         IF ch = "."
         THEN IF found_dot
              THEN handle_bad_read(InputNext(p.L).L,
                                   <<"Too many dots in numeric literal">>, first.pos)
              ELSE NumberLoop_ErrAsEnd(InputNext(p.L).L, first, Append(s, ch), TRUE)
         ELSE IF is_ascii_digit(ch)
         THEN NumberLoop_ErrAsEnd(InputNext(p.L).L, first, Append(s, ch), found_dot)
         ELSE IF is_separator(ch)
         THEN NumberEnd(p.L, first, s, found_dot)
         ELSE handle_bad_read(InputNext(p.L).L,
                              <<"Unexpected character in numeric literal: ", ch>>,
                              first.pos)
    ELSE NumberEnd(p.L, first, s, found_dot))

\* NumberLoop with the second dot left in the look-ahead for handle_bad_read.
RECURSIVE NumberLoop_SecondDotLeft(_, _, _, _)
NumberLoop_SecondDotLeft(L, first, s, found_dot) ==
    Bind(InputPeek(L), LAMBDA p :
    IF p.item.k = "ch"
    THEN LET ch == p.item.ch IN
         IF ch = "."
         THEN IF found_dot
              THEN handle_bad_read(p.L, <<"Too many dots in numeric literal">>, first.pos)
              ELSE NumberLoop_SecondDotLeft(InputNext(p.L).L, first, Append(s, ch), TRUE)
         ELSE IF is_ascii_digit(ch)
         THEN NumberLoop_SecondDotLeft(InputNext(p.L).L, first, Append(s, ch), found_dot)
         ELSE IF is_separator(ch)
         THEN NumberEnd(p.L, first, s, found_dot)
         ELSE handle_bad_read(InputNext(p.L).L,
                              <<"Unexpected character in numeric literal: ", ch>>,
                              first.pos)
    ELSE IF p.item.k = "err"
    THEN LET n == InputNext(p.L) IN Ret(n.L, ErrRes(n.item.e))
    ELSE NumberEnd(p.L, first, s, found_dot))

\* consume_number's loop
RECURSIVE NumberLoop(_, _, _, _)
NumberLoop(L, first, s, found_dot) ==
    Bind(InputPeek(L), LAMBDA p :
    IF p.item.k = "ch"
    THEN LET ch == p.item.ch IN
         IF ch = "."
         THEN IF found_dot
              THEN handle_bad_read(InputNext(p.L).L,
                                   <<"Too many dots in numeric literal">>, first.pos)
              ELSE NumberLoop(InputNext(p.L).L, first, Append(s, ch), TRUE)
         ELSE IF is_ascii_digit(ch)
         THEN NumberLoop(InputNext(p.L).L, first, Append(s, ch), found_dot)
         ELSE IF is_separator(ch)
         THEN NumberEnd(p.L, first, s, found_dot)
         ELSE handle_bad_read(InputNext(p.L).L,
                              <<"Unexpected character in numeric literal: ", ch>>,
                              first.pos)
    ELSE IF p.item.k = "err"
    THEN LET n == InputNext(p.L) IN Ret(n.L, ErrRes(n.item.e))
    ELSE NumberEnd(p.L, first, s, found_dot))

\* Lexer::consume_number
consume_number(L, first) == NumberLoop(L, first, <<first.ch>>, FALSE)

\* consume_operator that takes the character after a lone '<' or '>'.
consume_operator_TakesNext(L, first) ==
    Bind(InputPeek(L), LAMBDA p :
    IF p.item.k = "err"
    THEN LET n == InputNext(p.L) IN Ret(n.L, ErrRes(n.item.e))
    ELSE IF first.ch = "<" /\ p.item.k = "ch" /\ p.item.ch = ">"
    THEN Ret(InputNext(p.L).L, OkSpan(Tok("NotEqual"), first.pos, 2))
    ELSE IF first.ch = "<" /\ p.item.k = "ch" /\ p.item.ch = "="
    THEN Ret(InputNext(p.L).L, OkSpan(Tok("LessEqual"), first.pos, 2))
    ELSE IF first.ch = "<"
    THEN Ret(InputNext(p.L).L, OkSpan(Tok("Less"), first.pos, 1))
    ELSE IF first.ch = ">" /\ p.item.k = "ch" /\ p.item.ch = "="
    THEN Ret(InputNext(p.L).L, OkSpan(Tok("GreaterEqual"), first.pos, 2))
    ELSE Ret(InputNext(p.L).L, OkSpan(Tok("Greater"), first.pos, 1)))

\* consume_operator that takes a reader error for the end of the operator.
consume_operator_ErrAsEnd(L, first) ==
    Bind(InputPeek(L), LAMBDA p :
    IF first.ch = "<" /\ p.item.k = "ch" /\ p.item.ch = ">"
    THEN Ret(InputNext(p.L).L, OkSpan(Tok("NotEqual"), first.pos, 2))
    ELSE IF first.ch = "<" /\ p.item.k = "ch" /\ p.item.ch = "="
    THEN Ret(InputNext(p.L).L, OkSpan(Tok("LessEqual"), first.pos, 2))
    ELSE IF first.ch = "<"
    THEN Ret(p.L, OkSpan(Tok("Less"), first.pos, 1))
    ELSE IF first.ch = ">" /\ p.item.k = "ch" /\ p.item.ch = "="
    THEN Ret(InputNext(p.L).L, OkSpan(Tok("GreaterEqual"), first.pos, 2))
    ELSE Ret(p.L, OkSpan(Tok("Greater"), first.pos, 1)))

\* Lexer::consume_operator
consume_operator(L, first) ==
    Bind(InputPeek(L), LAMBDA p :
    IF p.item.k = "err"
    THEN LET n == InputNext(p.L) IN Ret(n.L, ErrRes(n.item.e))
    ELSE IF first.ch = "<" /\ p.item.k = "ch" /\ p.item.ch = ">"
    THEN Ret(InputNext(p.L).L, OkSpan(Tok("NotEqual"), first.pos, 2))
    ELSE IF first.ch = "<" /\ p.item.k = "ch" /\ p.item.ch = "="
    THEN Ret(InputNext(p.L).L, OkSpan(Tok("LessEqual"), first.pos, 2))
    ELSE IF first.ch = "<"
    THEN Ret(p.L, OkSpan(Tok("Less"), first.pos, 1))
    ELSE IF first.ch = ">" /\ p.item.k = "ch" /\ p.item.ch = "="
    THEN Ret(InputNext(p.L).L, OkSpan(Tok("GreaterEqual"), first.pos, 2))
    ELSE Ret(p.L, OkSpan(Tok("Greater"), first.pos, 1)))

\* The keyword table of consume_symbol: upper-case spelling and token.
KeywordTable ==
    { << <<"A","N","D">>,                     Tok("And") >>,
      << <<"A","S">>,                         Tok("As") >>,
      << <<"B","O","O","L","E","A","N">>,     Tok("BooleanName") >>,
      << <<"D","A","T","A">>,                 Tok("Data") >>,
      << <<"D","I","M">>,                     Tok("Dim") >>,
      << <<"D","O","U","B","L","E">>,         Tok("DoubleName") >>,
      << <<"E","L","S","E">>,                 Tok("Else") >>,
      << <<"E","L","S","E","I","F">>,         Tok("Elseif") >>,
      << <<"E","N","D">>,                     Tok("End") >>,
      << <<"F","A","L","S","E">>,             TokBoolean(FALSE) >>,
      << <<"F","O","R">>,                     Tok("For") >>,
      << <<"G","O","T","O">>,                 Tok("Goto") >>,
      << <<"I","F">>,                         Tok("If") >>,
      << <<"I","N","T","E","G","E","R">>,     Tok("IntegerName") >>,
      << <<"M","O","D">>,                     Tok("Modulo") >>,
      << <<"N","E","X","T">>,                 Tok("Next") >>,
      << <<"N","O","T">>,                     Tok("Not") >>,
      << <<"O","R">>,                         Tok("Or") >>,
      << <<"S","T","E","P">>,                 Tok("Step") >>,
      << <<"S","T","R","I","N","G">>,         Tok("TextName") >>,
      << <<"T","H","E","N">>,                 Tok("Then") >>,
      << <<"T","O">>,                         Tok("To") >>,
      << <<"T","R","U","E">>,                 TokBoolean(TRUE) >>,
      << <<"W","E","N","D">>,                 Tok("Wend") >>,
      << <<"W","H","I","L","E">>,             Tok("While") >>,
      << <<"X","O","R">>,                     Tok("Xor") >> }

KeywordSpellings == { kw[1] : kw \in KeywordTable }

\* The keyword match made on s as it was read.
SymbolToken_CaseSensitive(s, vtype) ==
    IF s \in KeywordSpellings
    THEN (CHOOSE kw \in KeywordTable : kw[1] = s)[2]
    ELSE TokSymbol(s, vtype)

\* The keyword match that keeps the upper-cased name for a symbol.
SymbolToken_UppercasesName(s, vtype) ==
    LET up == to_uppercase(s) IN
    IF up \in KeywordSpellings
    THEN (CHOOSE kw \in KeywordTable : kw[1] = up)[2]
    ELSE TokSymbol(up, vtype)

\* The match on s.to_uppercase() in consume_symbol, REM apart.
SymbolToken(s, vtype) ==
    LET up == to_uppercase(s) IN
    IF up \in KeywordSpellings
    THEN (CHOOSE kw \in KeywordTable : kw[1] = up)[2]
    ELSE TokSymbol(s, vtype)

\* consume_symbol that takes the character that ended the name.
SymbolEnd_TakesNext(L, first, s, vtype, sigil_len) ==
    LET token_len == sigil_len + StrLen(s) IN
    IF to_uppercase(s) = <<"R","E","M">>
    THEN consume_rest_of_line(L)
    ELSE Ret(InputNext(L).L, OkSpan(SymbolToken(s, vtype), first.pos, token_len))

\* consume_symbol after its loop: the name `s` and its annotation are read.
SymbolEnd(L, first, s, vtype, sigil_len) ==
    LET token_len == sigil_len + StrLen(s) IN
    IF to_uppercase(s) = <<"R","E","M">>
    THEN consume_rest_of_line(L)
    ELSE Ret(L, OkSpan(SymbolToken(s, vtype), first.pos, token_len))

\* The type a trailing annotation character stands for.
SigilType(ch) ==
    CASE ch = "?" -> "Boolean"
      [] ch = "#" -> "Double"
      [] ch = "%" -> "Integer"
      [] ch = "$" -> "Text"

Sigils == {"?", "#", "%", "$"}

\* consume_symbol's loop
RECURSIVE SymbolLoop(_, _, _)
SymbolLoop(L, first, s) ==
    Bind(InputPeek(L), LAMBDA p :
    IF p.item.k = "ch"
    THEN LET ch == p.item.ch IN
         IF is_word(ch)
         THEN SymbolLoop(InputNext(p.L).L, first, Append(s, ch))
         ELSE IF is_separator(ch)
         THEN SymbolEnd(p.L, first, s, "Auto", 0)
         ELSE IF ch \in Sigils
         THEN SymbolEnd(InputNext(p.L).L, first, s, SigilType(ch), 1)
         ELSE handle_bad_read(InputNext(p.L).L,
                              <<"Unexpected character in symbol: ", ch>>, first.pos)
    ELSE IF p.item.k = "err"
    THEN LET n == InputNext(p.L) IN Ret(n.L, ErrRes(n.item.e))
    ELSE SymbolEnd(p.L, first, s, "Auto", 0))

\* Lexer::consume_symbol
consume_symbol(L, first) == SymbolLoop(L, first, <<first.ch>>)

\* TextEnd with the two quotes left out of the length.
TextEnd_WithoutQuotes(L, delim, s) ==
    LET token_len == StrLen(s) IN
    Ret(L, OkSpan(TokText(s), delim.pos, token_len))

\* consume_text after the closing delimiter
TextEnd(L, delim, s) ==
    LET token_len == StrLen(s) + 2 IN
    Ret(L, OkSpan(TokText(s), delim.pos, token_len))

\* consume_text's loop with the Bad token of an unterminated string stamped
\* where the reader stopped.
RECURSIVE TextLoop_BadAtEof(_, _, _, _)
TextLoop_BadAtEof(L, delim, s, escaping) ==
    Bind(InputPeek(L), LAMBDA p :
    IF p.item.k = "ch"
    THEN IF escaping
         THEN TextLoop_BadAtEof(InputNext(p.L).L, delim, Append(s, p.item.ch), FALSE)
         ELSE IF p.item.ch = "\\"
         THEN TextLoop_BadAtEof(InputNext(p.L).L, delim, s, TRUE)
         ELSE IF p.item.ch = delim.ch
         THEN TextEnd(InputNext(p.L).L, delim, s)
         ELSE TextLoop_BadAtEof(InputNext(p.L).L, delim, Append(s, p.item.ch), escaping)
    ELSE IF p.item.k = "err"
    THEN LET n == InputNext(p.L) IN Ret(n.L, ErrRes(n.item.e))
    ELSE handle_bad_read(p.L, <<"Incomplete string due to EOF: ">> \o s,
                         NextPosWatcher(p.L)))

\* consume_text's loop
RECURSIVE TextLoop(_, _, _, _)
TextLoop(L, delim, s, escaping) ==
    Bind(InputPeek(L), LAMBDA p :
    IF p.item.k = "ch"
    THEN IF escaping
         THEN TextLoop(InputNext(p.L).L, delim, Append(s, p.item.ch), FALSE)
         ELSE IF p.item.ch = "\\"
         THEN TextLoop(InputNext(p.L).L, delim, s, TRUE)
         ELSE IF p.item.ch = delim.ch
         THEN TextEnd(InputNext(p.L).L, delim, s)
         ELSE TextLoop(InputNext(p.L).L, delim, Append(s, p.item.ch), escaping)
    ELSE IF p.item.k = "err"
    THEN LET n == InputNext(p.L) IN Ret(n.L, ErrRes(n.item.e))
    ELSE handle_bad_read(p.L, <<"Incomplete string due to EOF: ">> \o s, delim.pos))

\* Lexer::consume_text
consume_text(L, delim) == TextLoop(L, delim, <<>>, FALSE)

\* consume_label after its loop
LabelEnd(L, first, s) ==
    IF s = <<>>
    THEN Ret(L, OkSpan(TokBad(<<"Empty label name">>), first.pos, 1))
    ELSE Ret(L, OkSpan(TokLabel(s), first.pos, StrLen(s) + 1))

\* consume_label's loop with the Bad token stamped at the offending character.
RECURSIVE LabelLoop_BadAtOffender(_, _, _)
LabelLoop_BadAtOffender(L, first, s) ==
    Bind(InputPeek(L), LAMBDA p :
    IF p.item.k = "ch"
    THEN LET ch == p.item.ch IN
         IF is_word(ch)
         THEN LabelLoop_BadAtOffender(InputNext(p.L).L, first, Append(s, ch))
         ELSE IF is_separator(ch)
         THEN LabelEnd(p.L, first, s)
         ELSE handle_bad_read(InputNext(p.L).L,
                              <<"Unexpected character in label: ", ch>>, p.item.pos)
    ELSE IF p.item.k = "err"
    THEN LET n == InputNext(p.L) IN Ret(n.L, ErrRes(n.item.e))
    ELSE LabelEnd(p.L, first, s))

\* consume_label's loop
RECURSIVE LabelLoop(_, _, _)
LabelLoop(L, first, s) ==
    Bind(InputPeek(L), LAMBDA p :
    IF p.item.k = "ch"
    THEN LET ch == p.item.ch IN
         IF is_word(ch)
         THEN LabelLoop(InputNext(p.L).L, first, Append(s, ch))
         ELSE IF is_separator(ch)
         THEN LabelEnd(p.L, first, s)
         ELSE handle_bad_read(InputNext(p.L).L,
                              <<"Unexpected character in label: ", ch>>, first.pos)
    ELSE IF p.item.k = "err"
    THEN LET n == InputNext(p.L) IN Ret(n.L, ErrRes(n.item.e))
    ELSE LabelEnd(p.L, first, s))

\* Lexer::consume_label
consume_label(L, first) == LabelLoop(L, first, <<>>)

\* advance_and_read_next with the first character of the token seen by peek()
\* and left in the look-ahead.
RECURSIVE advance_and_read_next_Peeking(_)
advance_and_read_next_Peeking(L) ==
    Bind(InputPeek(L), LAMBDA p :
    IF p.item.k = "ch" /\ is_space(p.item.ch)
    THEN advance_and_read_next_Peeking(InputNext(p.L).L)
    ELSE p)

\* advance_and_read_next that, after skipping spaces, places the character it
\* found one column after the last space instead of where the reader saw it.
RECURSIVE SkipCountingColumns(_, _)
SkipCountingColumns(L, last_space) ==
    Bind(InputNext(L), LAMBDA n :
    IF n.item.k = "ch" /\ is_space(n.item.ch)
    THEN SkipCountingColumns(n.L, n.item.pos)
    ELSE IF n.item.k = "ch" /\ last_space # LineCol(0, 0)
    THEN [n EXCEPT !.item.pos = LineCol(last_space.line, last_space.col + 1)]
    ELSE n)

advance_and_read_next_CountingColumns(L) == SkipCountingColumns(L, LineCol(0, 0))

\* Lexer::advance_and_read_next: the first item that is not a space.
RECURSIVE advance_and_read_next(_)
advance_and_read_next(L) ==
    Bind(InputNext(L), LAMBDA n :
    IF n.item.k = "ch" /\ is_space(n.item.ch)
    THEN advance_and_read_next(n.L)
    ELSE n)

\* The one-character tokens with '-' read as Plus.
SingleCharToken_MinusAsPlus(ch) ==
    CASE ch = "\n" -> Tok("Eol")
      [] ch = ":"  -> Tok("Eol")
      [] ch = ";"  -> Tok("Semicolon")
      [] ch = ","  -> Tok("Comma")
      [] ch = "("  -> Tok("LeftParen")
      [] ch = ")"  -> Tok("RightParen")
      [] ch = "+"  -> Tok("Plus")
      [] ch = "-"  -> Tok("Plus")
      [] ch = "*"  -> Tok("Multiply")
      [] ch = "/"  -> Tok("Divide")
      [] ch = "^"  -> Tok("Exponent")
      [] ch = "="  -> Tok("Equal")

\* The one-character tokens with the two parentheses taken for each other.
SingleCharToken_SwapsParens(ch) ==
    CASE ch = "\n" -> Tok("Eol")
      [] ch = ":"  -> Tok("Eol")
      [] ch = ";"  -> Tok("Semicolon")
      [] ch = ","  -> Tok("Comma")
      [] ch = "("  -> Tok("RightParen")
      [] ch = ")"  -> Tok("LeftParen")
      [] ch = "+"  -> Tok("Plus")
      [] ch = "-"  -> Tok("Minus")
      [] ch = "*"  -> Tok("Multiply")
      [] ch = "/"  -> Tok("Divide")
      [] ch = "^"  -> Tok("Exponent")
      [] ch = "="  -> Tok("Equal")

\* The one-character tokens of Lexer::read's match.
SingleCharToken(ch) ==
    CASE ch = "\n" -> Tok("Eol")
      [] ch = ":"  -> Tok("Eol")
      [] ch = ";"  -> Tok("Semicolon")
      [] ch = ","  -> Tok("Comma")
      [] ch = "("  -> Tok("LeftParen")
      [] ch = ")"  -> Tok("RightParen")
      [] ch = "+"  -> Tok("Plus")
      [] ch = "-"  -> Tok("Minus")
      [] ch = "*"  -> Tok("Multiply")
      [] ch = "/"  -> Tok("Divide")
      [] ch = "^"  -> Tok("Exponent")
      [] ch = "="  -> Tok("Equal")

SingleChars == {"\n", ":", ";", ",", "(", ")", "+", "-", "*", "/", "^", "="}

\* Lexer::read's match with one-character tokens placed at the reader's next
\* position instead of the character's own.
Dispatch_AtNextPos(L, ch_span) ==
    LET ch == ch_span.ch IN
    IF ch \in SingleChars THEN Ret(L, OkSpan(SingleCharToken(ch), NextPosWatcher(L), 1))
    ELSE IF ch = "'" THEN consume_rest_of_line(L)
    ELSE IF ch = "\"" THEN consume_text(L, ch_span)
    ELSE IF ch \in {"<", ">"} THEN consume_operator(L, ch_span)
    ELSE IF ch = "@" THEN consume_label(L, ch_span)
    ELSE IF is_ascii_digit(ch) THEN consume_number(L, ch_span)
    ELSE IF is_word(ch) THEN consume_symbol(L, ch_span)
    ELSE handle_bad_read(L, <<"Unknown character: ", ch>>, ch_span.pos)

\* Lexer::read's match on the first character of the token.
Dispatch(L, ch_span) ==
    LET ch == ch_span.ch IN
    IF ch \in SingleChars THEN Ret(L, OkSpan(SingleCharToken(ch), ch_span.pos, 1))
    ELSE IF ch = "'" THEN consume_rest_of_line(L)
    ELSE IF ch = "\"" THEN consume_text(L, ch_span)
    ELSE IF ch \in {"<", ">"} THEN consume_operator(L, ch_span)
    ELSE IF ch = "@" THEN consume_label(L, ch_span)
    ELSE IF is_ascii_digit(ch) THEN consume_number(L, ch_span)
    ELSE IF is_word(ch) THEN consume_symbol(L, ch_span)
    ELSE handle_bad_read(L, <<"Unknown character: ", ch>>, ch_span.pos)

\* Lexer::read
LexerRead(L) ==
    Bind(advance_and_read_next(L), LAMBDA n :
    IF n.item.k = "err" THEN Ret(n.L, ErrRes(n.item.e))
    ELSE IF n.item.k = "none"
    THEN Ret(n.L, OkSpan(Tok("Eof"), NextPosWatcher(n.L), 0))
    ELSE Dispatch(n.L, n.item))

(***************************************************************************)
(* impl fmt::Display for Token: the canonical format of a token.           *)
(***************************************************************************)
\* The tokens written with one fixed text, and that text.
FixedRenderings ==
    { << Tok("Comma"),        <<",">> >>,
      << Tok("Semicolon"),    <<";">> >>,
      << Tok("LeftParen"),    <<"(">> >>,
      << Tok("RightParen"),   <<")">> >>,
      << Tok("Plus"),         <<"+">> >>,
      << Tok("Minus"),        <<"-">> >>,
      << Tok("Multiply"),     <<"*">> >>,
      << Tok("Divide"),       <<"/">> >>,
      << Tok("Modulo"),       <<"M","O","D">> >>,
      << Tok("Exponent"),     <<"^">> >>,
      << Tok("Equal"),        <<"=">> >>,
      << Tok("NotEqual"),     <<"<",">">> >>,
      << Tok("Less"),         <<"<">> >>,
      << Tok("LessEqual"),    <<"<","=">> >>,
      << Tok("Greater"),      <<">">> >>,
      << Tok("GreaterEqual"), <<">","=">> >>,
      << Tok("And"),          <<"A","N","D">> >>,
      << Tok("Not"),          <<"N","O","T">> >>,
      << Tok("Or"),           <<"O","R">> >>,
      << Tok("Xor"),          <<"X","O","R">> >>,
      << Tok("Data"),         <<"D","A","T","A">> >>,
      << Tok("Else"),         <<"E","L","S","E">> >>,
      << Tok("Elseif"),       <<"E","L","S","E","I","F">> >>,
      << Tok("End"),          <<"E","N","D">> >>,
      << Tok("For"),          <<"F","O","R">> >>,
      << Tok("Goto"),         <<"G","O","T","O">> >>,
      << Tok("If"),           <<"I","F">> >>,
      << Tok("Next"),         <<"N","E","X","T">> >>,
      << Tok("Step"),         <<"S","T","E","P">> >>,
      << Tok("Then"),         <<"T","H","E","N">> >>,
      << Tok("To"),           <<"T","O">> >>,
      << Tok("Wend"),         <<"W","E","N","D">> >>,
      << Tok("While"),        <<"W","H","I","L","E">> >>,
      << Tok("Dim"),          <<"D","I","M">> >>,
      << Tok("As"),           <<"A","S">> >>,
      << Tok("BooleanName"),  <<"B","O","O","L","E","A","N">> >>,
      << Tok("DoubleName"),   <<"D","O","U","B","L","E">> >>,
      << Tok("IntegerName"),  <<"I","N","T","E","G","E","R">> >>,
      << Tok("TextName"),     <<"S","T","R","I","N","G">> >> }

\* The punctuation, operator, keyword and type-name tokens.
FixedTokens == { r[1] : r \in FixedRenderings }

\* "{}" of a non-negative i32: its decimal digits.
RECURSIVE FormatI32(_)
FormatI32(i) ==
    IF i < 10 THEN <<DigitChars[i + 1]>>
    ELSE Append(FormatI32(i \div 10), DigitChars[(i % 10) + 1])

\* "{}" of the f64 parsed from a short literal: the integral digits, "0" when
\* there are none, and the fractional digits after a dot when there are any.
FormatF64(d) ==
    (IF d.ip = <<>> THEN <<"0">> ELSE d.ip)
        \o (IF d.fp = <<>> THEN <<>> ELSE <<".">> \o d.fp)

\* <VarRef as fmt::Display>::fmt, which lives with the AST: what it writes
\* is left open, as a text that stands for the reference it is applied to.
VarRefDisplay(vref) == <<"VarRef(">> \o vref.name \o <<",", vref.vtype, ")">>

\* Display with a label written as its bare name.
Display_LabelWithoutAt(t) ==
    CASE t.t = "Eof"     -> <<"<","<","E","O","F",">",">">>
      [] t.t = "Eol"     -> <<"<","<","N","E","W","L","I","N","E",">",">">>
      [] t.t = "Bad"     -> <<"<","<">> \o t.v \o <<">",">">>
      [] t.t = "Boolean" -> IF t.v[1] THEN <<"T","R","U","E">> ELSE <<"F","A","L","S","E">>
      [] t.t = "Double"  -> FormatF64(t.v)
      [] t.t = "Integer" -> FormatI32(t.v[1])
      [] t.t = "Text"    -> t.v
      [] t.t = "Symbol"  -> VarRefDisplay(t.v)
      [] t.t = "Label"   -> t.v
      [] OTHER           -> (CHOOSE r \in FixedRenderings : r[1] = t)[2]

\* <Token as fmt::Display>::fmt.  A Symbol is written by VarRef's own
\* Display.
Display(t) ==
    CASE t.t = "Eof"     -> <<"<","<","E","O","F",">",">">>
      [] t.t = "Eol"     -> <<"<","<","N","E","W","L","I","N","E",">",">">>
      [] t.t = "Bad"     -> <<"<","<">> \o t.v \o <<">",">">>
      [] t.t = "Boolean" -> IF t.v[1] THEN <<"T","R","U","E">> ELSE <<"F","A","L","S","E">>
      [] t.t = "Double"  -> FormatF64(t.v)
      [] t.t = "Integer" -> FormatI32(t.v[1])
      [] t.t = "Text"    -> t.v
      [] t.t = "Symbol"  -> VarRefDisplay(t.v)
      [] t.t = "Label"   -> <<"@">> \o t.v
      [] OTHER           -> (CHOOSE r \in FixedRenderings : r[1] = t)[2]

(***************************************************************************)
(* The inputs of the model: every string of at most MaxLen characters over *)
(* one of these alphabets.                                                 *)
(***************************************************************************)
NumberAlphabet   == {"1", ".", "!", "+", " ", "a"}
SymbolAlphabet   == {"i", "F", "$", "?", "U+AC00", " "}
RemarkAlphabet   == {"R", "e", "m", "%", "\n", "a"}
TextAlphabet     == {"\"", "\\", "a", "\n", "'", "U+00E9"}
OperatorAlphabet == {"<", ">", "=", "@", "a", "!"}
LineAlphabet     == {"\t", " ", ":", "\n", "1", "a"}
NameAlphabet     == {"I", "f", "U+0131", "_", "1"}
CommentAlphabet  == {":", "a", "\n", " "}

Alphabets == {NumberAlphabet, SymbolAlphabet, RemarkAlphabet, TextAlphabet,
              OperatorAlphabet, LineAlphabet, NameAlphabet}

SeqsUpTo(A, n) == UNION { [1..k -> A] : k \in 0..n }

\* The spellings of the upper-case word w in every mix of letter cases.
CaseMixes(w) ==
    { [i \in DOMAIN w |->
          IF up[i] THEN w[i]
          ELSE LowerLetters[CHOOSE j \in DOMAIN UpperLetters : UpperLetters[j] = w[i]]] :
      up \in [DOMAIN w -> BOOLEAN] }

\* Every keyword of the table, alone, in every mix of letter cases.
KeywordInputs == UNION { CaseMixes(kw) : kw \in KeywordSpellings }

\* A comment opener followed by the rest of the program.
CommentInputs ==
    { opener \o rest :
        opener \in CaseMixes(<<"R", "E", "M">>) \cup {<<"'">>},
        rest \in SeqsUpTo(CommentAlphabet, MaxLen - 1) }

\* The canonical rendering of every token that has a fixed one.
RenderedInputs ==
    { Display(t) : t \in FixedTokens \cup {TokBoolean(TRUE), TokBoolean(FALSE)} }

\* An '@' followed by what may or may not be a label name.
LabelAlphabet == {"1", "a", "U+AC00", " ", "!"}
LabelInputs == { <<"@">> \o rest : rest \in SeqsUpTo(LabelAlphabet, MaxLen - 1) }

\* Digit runs around the largest i32, alone and followed by a separator.
IntegerInputs ==
    { digits \o rest :
        digits \in { <<"2","1","4","7","4","8","3","6","4","7">>,
                     <<"2","1","4","7","4","8","3","6","4","8">>,
                     <<"9","9","9","9","9","9","9","9","9","9">>,
                     <<"0","2","1","4","7","4","8","3","6","4","7">>,
                     <<"0","2","1","4","7","4","8","3","6","4","8">>,
                     <<"0","0","7">> },
        rest \in { <<>>, <<"+">>, <<"+", "5">>, <<" ", "5">> } }

\* A '-' before, between and after the characters of numbers.
MinusAlphabet == {"-", "1", "."}
MinusInputs == SeqsUpTo(MinusAlphabet, MaxLen - 1)

\* The string literal "a\"b\\c" with its two escapes.
EscapeInputs == { <<"\"", "a", "\\", "\"", "b", "\\", "\\", "c", "\"">> }

Inputs ==
    UNION { SeqsUpTo(A, MaxLen) : A \in Alphabets }
        \cup KeywordInputs \cup CommentInputs
        \cup RenderedInputs \cup LabelInputs \cup IntegerInputs \cup EscapeInputs
        \cup MinusInputs

(***************************************************************************)
(* The state machine: a Lexer, which peekable() may wrap at any time.      *)
(***************************************************************************)
\* Every read past MaxReads returns what read number MaxReads returned (the
\* input is over and the reader has settled), so the count stops there.
MaxReads == MaxLen + 3

Counted(n) == IF n < MaxReads THEN n + 1 ELSE n

\* What the caller prints for a result: the token's Display, nothing for Err.
Echo(r) == IF r.k = "ok" THEN Display(r.token) ELSE <<>>

Init ==
    /\ input \in Inputs
    /\ faulty \in BOOLEAN
    /\ lexer = NewLexer
    /\ wrapped = FALSE
    /\ peeked = NoRes
    /\ op = "from"
    /\ fetched = FALSE
    /\ result = NoRes
    /\ prev = NoRes
    /\ before = NewLexer
    /\ returned = 0
    /\ echo = <<>>
    /\ term = NotRunning /\ out = NotRunning /\ lcd = NotRunning /\ enc = NotRunning

\* Lexer::read, called on a lexer that is not wrapped
Read ==
    /\ ~wrapped
    /\ LET r == LexerRead(lexer) IN
       /\ lexer' = r.L
       /\ result' = r.r
    /\ prev' = result
    /\ before' = lexer
    /\ op' = "read"
    /\ fetched' = TRUE
    /\ returned' = Counted(returned)
    /\ echo' = Echo(result')
    /\ UNCHANGED <<term, out, lcd, enc, input, faulty, wrapped, peeked>>

\* Lexer::peekable
Peekable ==
    /\ ~wrapped
    /\ wrapped' = TRUE
    /\ peeked' = NoRes
    /\ op' = "peekable"
    /\ fetched' = FALSE
    /\ UNCHANGED <<term, out, lcd, enc, input, faulty, lexer, result, prev, before, returned, echo>>

\* peek that reads a token from the lexer on every call.
Peek_AlwaysFetches ==
    /\ wrapped
    /\ LET r == LexerRead(lexer) IN
       /\ lexer' = r.L
       /\ peeked' = IF r.r.k = "ok" THEN r.r ELSE peeked
       /\ result' = r.r
       /\ fetched' = TRUE
    /\ prev' = result
    /\ before' = lexer
    /\ op' = "peek"
    /\ echo' = Echo(result')
    /\ UNCHANGED <<term, out, lcd, enc, input, faulty, wrapped, returned>>

\* PeekableLexer::peek
Peek ==
    /\ wrapped
    /\ IF peeked.k = "none"
       THEN LET r == LexerRead(lexer) IN
            /\ lexer' = r.L
            /\ peeked' = IF r.r.k = "ok" THEN r.r ELSE peeked
            /\ result' = r.r
            /\ fetched' = TRUE
       ELSE /\ result' = peeked
            /\ fetched' = FALSE
            /\ UNCHANGED <<lexer, peeked>>
    /\ prev' = result
    /\ before' = lexer
    /\ op' = "peek"
    /\ echo' = Echo(result')
    /\ UNCHANGED <<term, out, lcd, enc, input, faulty, wrapped, returned>>

\* read that goes to the lexer without looking at the buffer.
PeekableRead_SkipsBuffer ==
    /\ wrapped
    /\ LET r == LexerRead(lexer) IN
       /\ lexer' = r.L
       /\ result' = r.r
       /\ fetched' = TRUE
       /\ UNCHANGED peeked
    /\ prev' = result
    /\ before' = lexer
    /\ op' = "read"
    /\ returned' = Counted(returned)
    /\ echo' = Echo(result')
    /\ UNCHANGED <<term, out, lcd, enc, input, faulty, wrapped>>

\* PeekableLexer::read
PeekableRead ==
    /\ wrapped
    /\ IF peeked.k # "none"
       THEN /\ result' = peeked
            /\ peeked' = NoRes
            /\ fetched' = FALSE
            /\ UNCHANGED lexer
       ELSE LET r == LexerRead(lexer) IN
            /\ lexer' = r.L
            /\ result' = r.r
            /\ fetched' = TRUE
            /\ UNCHANGED peeked
    /\ prev' = result
    /\ before' = lexer
    /\ op' = "read"
    /\ returned' = Counted(returned)
    /\ echo' = Echo(result')
    /\ UNCHANGED <<term, out, lcd, enc, input, faulty, wrapped>>

\* consume_peeked that returns the buffered token and leaves it in the buffer.
ConsumePeeked_KeepsBuffer ==
    /\ wrapped
    /\ peeked.k # "none"
    /\ result' = peeked
    /\ prev' = result
    /\ before' = lexer
    /\ op' = "consume_peeked"
    /\ fetched' = FALSE
    /\ returned' = Counted(returned)
    /\ echo' = Echo(result')
    /\ UNCHANGED <<term, out, lcd, enc, input, faulty, wrapped, lexer, peeked>>

\* PeekableLexer::consume_peeked, called as its contract asks: after a peek
\* that succeeded
ConsumePeeked ==
    /\ wrapped
    /\ peeked.k # "none"
    /\ result' = peeked
    /\ peeked' = NoRes
    /\ prev' = result
    /\ before' = lexer
    /\ op' = "consume_peeked"
    /\ fetched' = FALSE
    /\ returned' = Counted(returned)
    /\ echo' = Echo(result')
    /\ UNCHANGED <<term, out, lcd, enc, input, faulty, wrapped, lexer>>

Next == Read \/ Peekable \/ Peek \/ PeekableRead \/ ConsumePeeked

Spec == Init /\ [][Next]_vars

\* The caller keeps reading: do_ok_test's loop.
FairSpec == Spec /\ WF_vars(Read) /\ WF_vars(PeekableRead)

(***************************************************************************)
(* What the properties below measure, computed from `input` alone.         *)
(***************************************************************************)
\* The position of the character that follows the first n characters.
RECURSIVE PosAfter(_)
PosAfter(n) == IF n = 0 THEN LineCol(1, 1) ELSE NextPos(PosAfter(n - 1), input[n])

\* The position of input[i].
PosOf(i) == PosAfter(i - 1)

\* a is at or before b.
PosLeq(a, b) == a.line < b.line \/ (a.line = b.line /\ a.col <= b.col)

RECURSIVE SkipSpaces(_)
SkipSpaces(i) == IF i <= Len(input) /\ is_space(input[i]) THEN SkipSpaces(i + 1) ELSE i

\* For the Lexer::read of the last operation: the index of the first character
\* of its token, and of the last character it consumed.
TokenStart == SkipSpaces(Consumed(before) + 1)
TokenEnd   == Consumed(lexer)

\* The last operation ran Lexer::read and it returned Ok.
ReadOk == fetched /\ result.k = "ok"

IsEof(r) == r.k = "ok" /\ r.token.t = "Eof"
IsBad(r) == r.k = "ok" /\ r.token.t = "Bad"

(***************************************************************************)
(* Properties.                                                             *)
(***************************************************************************)

\* C1: once an operation has returned Eof, the next operation that returns a
\* token returns Eof again, with length 0 and at the same position.
C1_EofIsSticky ==
    [][IsEof(result) =>
          /\ IsEof(result')
          /\ result'.length = 0
          /\ result'.pos = result.pos]_vars

\* Eof was read twice in a row from the lexer, the first one out of a comment.
C1_Witness ==
    /\ op = "read" /\ fetched
    /\ IsEof(prev) /\ IsEof(result)
    /\ Len(input) > 0 /\ input[1] = "'"

\* The progress half of C2: a read that returns a token other than Eof has
\* taken at least one character out of the reader.
ReadConsumes ==
    (ReadOk /\ result.token.t # "Eof") => Consumed(lexer) > Consumed(before)

\* C2: on an input whose reader raises no error, a caller that keeps reading
\* gets Eof after finitely many reads, and every read that returns another
\* token consumes at least one character.
C2_ReadsReachEof ==
    /\ [](ReadConsumes)
    /\ (~faulty) ~> IsEof(result)

\* A read returned a token after taking several characters, with more to come.
C2_Witness ==
    /\ ReadOk /\ result.token.t \notin {"Eof", "Bad"}
    /\ Consumed(lexer) > Consumed(before) + 1
    /\ Consumed(lexer) < Len(input)
    /\ ~faulty

\* C3: of two consecutive operations that return tokens, the second token is
\* not positioned before the first.
C3_PositionsOrdered ==
    (prev.k = "ok" /\ result.k = "ok") => PosLeq(prev.pos, result.pos)

\* Two consecutive reads, the second token further on the same line than a
\* number.
C3_Witness ==
    /\ op = "read" /\ fetched
    /\ prev.k = "ok" /\ prev.token.t \in {"Integer", "Double"}
    /\ result.k = "ok" /\ result.token.t # "Eof"
    /\ result.pos.line = prev.pos.line /\ result.pos.col > prev.pos.col

\* The item the lexer would take next is a separator, or the input is exhausted.
AtSeparatorOrEnd(L) ==
    \/ Consumed(L) < Len(input) /\ is_separator(input[Consumed(L) + 1])
    \/ Consumed(L) = Len(input) /\ ~faulty

\* C4: when a read returns Bad, the next unconsumed character is a separator
\* or the input is exhausted, and the read that follows returns Eof or a token
\* positioned at or after that separator.
C4_BadStopsAtSeparator ==
    /\ (fetched /\ IsBad(result)) => AtSeparatorOrEnd(lexer)
    /\ (IsBad(prev) /\ ReadOk) =>
          \/ IsEof(result)
          \/ /\ Consumed(before) < Len(input)
             /\ PosLeq(PosOf(Consumed(before) + 1), result.pos)

\* A Bad token whose recovery skipped characters and stopped at a separator
\* was followed by the read of a token.
C4_Witness ==
    /\ IsBad(prev) /\ prev.length > 1
    /\ ReadOk /\ ~IsEof(result)
    /\ is_separator(input[Consumed(before) + 1])

\* C5: a read during which the reader handed out an I/O error returns Err,
\* and the first such read returns the error of the byte source.
C5_IoErrorIsErr ==
    (fetched /\ lexer.rd.errTaken) =>
        /\ result.k = "err"
        /\ (~before.rd.errTaken => result.e = "InvalidData")

\* The byte source failed in the middle of a token.
C5_Witness ==
    /\ fetched /\ result.k = "err" /\ result.e = "InvalidData"
    /\ TokenStart < Len(input)
    /\ ~is_space(input[Len(input)])

\* C6: after PeekableLexer::read has returned a read error, the stream is
\* still valid: a caller that keeps reading obtains a further token.
C6_StreamValidAfterError ==
    (wrapped /\ op = "read" /\ result.k = "err") ~> (result.k = "ok")

\* The input is an identifier followed by one type annotation character.
IsWordString(s) == \A i \in DOMAIN s : is_word(s[i])

IsIdentifier(s) == s # <<>> /\ IsWordString(s) /\ ~is_ascii_digit(s[1])

SigiledIdentifier ==
    /\ Len(input) >= 2
    /\ input[Len(input)] \in Sigils
    /\ IsIdentifier(SubSeq(input, 1, Len(input) - 1))

\* C7: lexing an identifier n directly followed by a sigil yields
\* Symbol(VarRef{name = n, vtype = the sigil's type}) with length
\* char_count(n) + 1, whether or not n spells a keyword.
C7_SigiledIsSymbol ==
    (op = "read" /\ fetched /\ before = NewLexer /\ SigiledIdentifier) =>
        LET n == SubSeq(input, 1, Len(input) - 1) IN
        /\ result.k = "ok"
        /\ result.token.t = "Symbol"
        /\ result.token.v = [name |-> n, vtype |-> SigilType(input[Len(input)])]
        /\ result.pos = LineCol(1, 1)
        /\ result.length = Len(n) + 1

\* The index of the character the token of the last read is positioned at.
PosIdx == CHOOSE i \in (Consumed(before) + 1)..Len(input) : PosOf(i) = result.pos

HasPosIdx == \E i \in (Consumed(before) + 1)..Len(input) : PosOf(i) = result.pos

\* C8: the length of a token other than Eof counts characters: the `length`
\* characters of the source that start at the token's position were all
\* consumed by the read that produced it.
C8_LengthInCharacters ==
    (ReadOk /\ ~IsEof(result)) =>
        /\ HasPosIdx
        /\ PosIdx + result.length - 1 <= TokenEnd

\* C9: the length of a token other than Eof is the number of
\* characters consumed for it, from the one it is positioned at to the last.
C9_LengthIsConsumedCount ==
    (ReadOk /\ ~IsEof(result)) =>
        /\ HasPosIdx
        /\ result.length = TokenEnd - PosIdx + 1

\* C10 as stated: a Bad token is positioned at the offending character and
\* its length is the number of characters consumed from that character on.
C10_BadCountsConsumed ==
    (fetched /\ IsBad(result)) =>
        \E o \in TokenStart..TokenEnd :
            /\ result.pos = PosOf(o)
            /\ result.length = TokenEnd - o + 1

\* The first index after i that holds character ch.
RECURSIVE IndexFrom(_, _)
IndexFrom(i, ch) ==
    IF i > Len(input) \/ input[i] = ch THEN i ELSE IndexFrom(i + 1, ch)

\* The index of the character the message of the Bad token of the last read
\* complains about; 0 when the token was found bad only once it was complete.
OffendingIdx ==
    LET msg == result.token.v[1] IN
    IF msg \in {"Unexpected character in numeric literal: ",
                "Unexpected character in symbol: ",
                "Unexpected character in label: "}
    THEN IndexFrom(TokenStart + 1, result.token.v[2])
    ELSE IF msg = "Too many dots in numeric literal"
    THEN IndexFrom(IndexFrom(TokenStart + 1, ".") + 1, ".")
    ELSE IF msg = "Unknown character: " /\ ~is_ascii_digit(input[TokenStart])
    THEN TokenStart
    ELSE 0

\* C10 as amended: a Bad token is positioned at the first character of the
\* token being read, which is the offending character only when that one
\* starts the token; its length is 1 for the offending character plus the
\* characters skipped after it up to the next separator or EOF, and 1 when
\* the token was found bad only once it was complete.
C10_BadLength ==
    (fetched /\ IsBad(result)) =>
        /\ result.pos = PosOf(TokenStart)
        /\ IF OffendingIdx = 0
           THEN result.length = 1
           ELSE /\ OffendingIdx \in TokenStart..TokenEnd
                /\ result.length = TokenEnd - OffendingIdx + 1
                /\ \A i \in (OffendingIdx + 1)..TokenEnd : ~is_separator(input[i])
        /\ AtSeparatorOrEnd(lexer)

\* Recovery skipped characters after an offending character that did not
\* start the token.
C10_Witness ==
    /\ fetched /\ IsBad(result)
    /\ OffendingIdx > TokenStart
    /\ TokenEnd > OffendingIdx

\* The lexer and the result after k consecutive calls of Lexer::read on a
\* lexer that was never wrapped.
RECURSIVE PlainRun(_)
PlainRun(k) ==
    IF k = 0 THEN Ret(NewLexer, NoRes)
    ELSE Bind(PlainRun(k - 1), LAMBDA p : LexerRead(p.L))

\* C11: the n-th TokenSpan that read and consume_peeked hand out, peeks
\* interleaved at will, is the TokenSpan the n-th of n plain reads of the
\* same input returns; a peek returns the TokenSpan the next read would
\* return without it.
C11_PeekableMatchesPlainReads ==
    /\ (op \in {"read", "consume_peeked"} /\ result.k = "ok") =>
           result = PlainRun(returned).r
    /\ (op = "peek" /\ result.k = "ok") =>
           result = PlainRun(Counted(returned)).r
    /\ (returned = MaxReads) => PlainRun(MaxReads) = PlainRun(MaxReads - 1)

\* A read handed out a buffered token that is not the first of the input and
\* not Eof.
C11_Witness ==
    /\ wrapped /\ op = "read" /\ ~fetched
    /\ result.k = "ok" /\ ~IsEof(result)
    /\ returned >= 2

\* C12: a peek that directly follows a successful peek returns the same
\* TokenSpan and takes nothing from the lexer.
C12_PeekIsIdempotent ==
    [][(op = "peek" /\ result.k = "ok" /\ op' = "peek") =>
          (result' = result /\ lexer' = lexer /\ ~fetched')]_vars

\* A second peek in a row returned a token other than Eof.
C12_Witness ==
    /\ op = "peek" /\ ~fetched
    /\ result.k = "ok" /\ ~IsEof(result)
    /\ prev = result

\* C13: consume_peeked returns the TokenSpan the peek before it returned and
\* empties the buffer, so that the next peek or read goes to the lexer; the
\* buffer is full only right after a peek that succeeded, and a peek that
\* fails leaves it empty.
C13_ConsumePeekedTakesBuffer ==
    [][/\ (op' = "consume_peeked") =>
            (op = "peek" /\ result.k = "ok" /\ result' = result /\ peeked' = NoRes)
       /\ (op = "consume_peeked" /\ op' \in {"peek", "read"}) => fetched'
       /\ (peeked'.k # "none") => (op' = "peek" /\ result' = peeked')
       /\ (op' = "peek" /\ result'.k = "err") => peeked' = NoRes]_vars

\* consume_peeked handed out a token other than Eof.
C13_Witness ==
    /\ op = "consume_peeked"
    /\ result.k = "ok" /\ ~IsEof(result)
    /\ peeked = NoRes

\* The first index from i on that holds a separator, or Len(input) + 1.
RECURSIVE NextSeparator(_)
NextSeparator(i) ==
    IF i > Len(input) \/ is_separator(input[i]) THEN i ELSE NextSeparator(i + 1)

\* For the Lexer::read of the last operation: the characters from the start
\* of its token up to the next separator or the end of the input.
WordEnd == NextSeparator(TokenStart) - 1
Word == SubSeq(input, TokenStart, WordEnd)

\* The reader can answer the look-ahead that ends Word without an error.
WordIsEnded == ~faulty \/ WordEnd < Len(input)

IsLetter(ch) == ch \in Range(LowerLetters) \cup Range(UpperLetters)

\* C14: a keyword of the table spelled in any mix of upper and lower case
\* letters, with no sigil, yields the keyword's token, at the position of
\* its first letter and with the number of its letters as length.
C14_KeywordsAnyCase ==
    (/\ fetched /\ WordIsEnded
     /\ \A i \in DOMAIN Word : IsLetter(Word[i])
     /\ to_uppercase(Word) \in KeywordSpellings) =>
        \E kw \in KeywordTable :
            /\ kw[1] = to_uppercase(Word)
            /\ result = OkSpan(kw[2], PosOf(TokenStart), Len(Word))

\* A keyword of at least five letters was read in mixed case.
C14_Witness ==
    /\ fetched /\ result.k = "ok"
    /\ Len(Word) >= 5
    /\ to_uppercase(Word) \in KeywordSpellings
    /\ \E i, j \in DOMAIN Word :
          Word[i] \in Range(LowerLetters) /\ Word[j] \in Range(UpperLetters)

\* C15: an identifier with no sigil whose upper-cased spelling is neither a
\* keyword nor REM yields Symbol(VarRef{name, Auto}), the name spelled as in
\* the source.
C15_SymbolKeepsCase ==
    (/\ fetched /\ WordIsEnded
     /\ IsIdentifier(Word)
     /\ to_uppercase(Word) \notin KeywordSpellings \cup {<<"R", "E", "M">>}) =>
        /\ result.k = "ok"
        /\ result.token = TokSymbol(Word, "Auto")
        /\ result.pos = PosOf(TokenStart)

\* A symbol was read whose name mixes upper and lower case letters.
C15_Witness ==
    /\ fetched /\ result.k = "ok" /\ result.token.t = "Symbol"
    /\ result.token.v.vtype = "Auto"
    /\ \E i, j \in DOMAIN result.token.v.name :
          /\ result.token.v.name[i] \in Range(LowerLetters)
          /\ result.token.v.name[j] \in Range(UpperLetters)

\* The last operation read a number, a symbol or keyword without sigil, or a
\* label, and a separator follows it in the input.
EndedBySeparator ==
    /\ ReadOk /\ ~IsBad(result) /\ ~IsEof(result)
    /\ TokenStart <= Len(input)
    /\ is_word(input[TokenStart]) \/ input[TokenStart] = "@"
    /\ to_uppercase(Word) # <<"R", "E", "M">>
    /\ \A i \in DOMAIN Word : Word[i] \notin Sigils
    /\ WordEnd < Len(input)

RelationalTokens == {"Less", "LessEqual", "NotEqual", "Greater", "GreaterEqual"}

\* C16: the separator that ends a number, symbol or label is left in the
\* look-ahead by the read that returns the token, and the next read starts
\* with it: punctuation right after the token yields its own token at the
\* separator's position.
C16_SeparatorIsLeft ==
    [][EndedBySeparator =>
        LET sep == WordEnd + 1 IN
        /\ TokenEnd = WordEnd
        /\ lexer.pk.some /\ lexer.pk.item = ChItem(input[sep], PosOf(sep))
        /\ (fetched' /\ input[sep] \in SingleChars) =>
               result' = OkSpan(SingleCharToken(input[sep]), PosOf(sep), 1)
        /\ (fetched' /\ input[sep] \in {"<", ">"} /\ (~faulty \/ sep < Len(input))) =>
               /\ result'.k = "ok"
               /\ result'.token.t \in RelationalTokens
               /\ result'.pos = PosOf(sep)]_vars

\* An operator was read right after a symbol or a number, nothing in between.
C16_Witness ==
    /\ fetched /\ result.k = "ok"
    /\ result.token.t \in {"Equal", "NotEqual", "Plus"}
    /\ prev.k = "ok" /\ prev.token.t \in {"Symbol", "Integer"}
    /\ result.pos = LineCol(prev.pos.line, prev.pos.col + prev.length)

\* The Lexer::read of the last operation started at a comment: a ' or the
\* word REM.
AtComment ==
    /\ fetched
    /\ TokenStart <= Len(input)
    /\ input[TokenStart] = "'" \/ to_uppercase(Word) = <<"R", "E", "M">>

\* C17: a read that starts at ' or at the word REM in any letter case takes
\* every character up to and including the next newline and returns Eol with
\* length 1 at the newline's position; with no newline left it takes the
\* rest of the input and returns Eof at the reader's next position.
C17_CommentRunsToEndOfLine ==
    AtComment =>
        LET nl == IndexFrom(TokenStart, "\n") IN
        IF nl <= Len(input)
        THEN /\ result = OkSpan(Tok("Eol"), PosOf(nl), 1)
             /\ TokenEnd = nl
        ELSE ~faulty =>
             /\ result = OkSpan(Tok("Eof"), PosAfter(Len(input)), 0)
             /\ TokenEnd = Len(input)

\* A REM comment not in upper case that holds a ':' ran to its newline.
C17_Witness ==
    /\ AtComment /\ ReadOk /\ result.token.t = "Eol"
    /\ to_uppercase(Word) = <<"R", "E", "M">> /\ Word # to_uppercase(Word)
    /\ \E i \in TokenStart..TokenEnd : input[i] = ":"

\* The first index from i on that holds no word character, or Len(input) + 1.
RECURSIVE NameEnd(_)
NameEnd(i) == IF i > Len(input) \/ ~is_word(input[i]) THEN i ELSE NameEnd(i + 1)

\* The Lexer::read of the last operation went into consume_rest_of_line: it
\* started at a ', or at a name that spells REM and ends at a separator, at a
\* sigil or with the input.
ReadsComment ==
    /\ fetched
    /\ TokenStart <= Len(input)
    /\ \/ input[TokenStart] = "'"
       \/ LET e == NameEnd(TokenStart) IN
          /\ to_uppercase(SubSeq(input, TokenStart, e - 1)) = <<"R", "E", "M">>
          /\ e > Len(input) \/ is_separator(input[e]) \/ input[e] \in Sigils

\* The line of input[i], counted from the newlines before it, and the index
\* of the newline that starts its line (0 on the first line).
LineOf(i) == 1 + Cardinality({ j \in 1..(i - 1) : input[j] = "\n" })

LineStart(i) ==
    LET nls == { j \in 1..(i - 1) : input[j] = "\n" } IN
    IF nls = {} THEN 0 ELSE CHOOSE j \in nls : \A k \in nls : k <= j

\* C18: a read that starts at '\n' or ':' outside strings and comments
\* returns Eol with length 1 at that character's position and consumes
\* nothing else; a token's line is one more than the number of newlines
\* before it, so a ':' leaves the line unchanged, every token after a newline
\* is on a later line, and the character right after a newline is at column 1.
C18_NewlineAndColon ==
    (ReadOk /\ TokenStart <= Len(input) /\ ~ReadsComment) =>
        /\ (input[TokenStart] \in {"\n", ":"}) =>
               /\ result = OkSpan(Tok("Eol"), PosOf(TokenStart), 1)
               /\ TokenEnd = TokenStart
        /\ result.pos.line = LineOf(TokenStart)
        /\ (LineStart(TokenStart) = TokenStart - 1) => result.pos.col = 1

\* A token other than Eol was read right after a newline that is not the
\* first character.
C18_Witness ==
    /\ ReadOk /\ ~IsEof(result) /\ result.token.t # "Eol"
    /\ TokenStart > 2 /\ TokenStart <= Len(input)
    /\ input[TokenStart - 1] = "\n"
    /\ prev.k = "ok" /\ prev.token.t = "Eol" /\ prev.pos.line < result.pos.line

\* C19: every character other than '\n', a tab included, advances the column
\* by one: a token is at the column given by the number of characters before
\* it on its line, plus one.
C19_NoTabExpansion ==
    (ReadOk /\ TokenStart <= Len(input) /\ ~ReadsComment) =>
        result.pos.col = TokenStart - LineStart(TokenStart)

\* The column of input[i] when a tab moves to the next tab stop (the columns
\* 1, 1 + TAB_LENGTH, 1 + 2 * TAB_LENGTH, ...) and any other character one
\* column on.
RECURSIVE ColumnOf(_)
ColumnOf(i) ==
    IF i - 1 = LineStart(i) THEN 1
    ELSE LET c == ColumnOf(i - 1) IN
         IF input[i - 1] = "\t"
         THEN CHOOSE stop \in (c + 1)..(c + TAB_LENGTH) : (stop - 1) % TAB_LENGTH = 0
         ELSE c + 1

\* C19 as amended: a tab advances the column to the next tab stop, every
\* character other than '\n' and tab advances it by one.
C19_TabStops ==
    (ReadOk /\ TokenStart <= Len(input) /\ ~ReadsComment) =>
        result.pos.col = ColumnOf(TokenStart)

\* A token was read that has a tab and then other characters before it on
\* its line.
C19_Witness ==
    /\ ReadOk /\ ~IsEof(result) /\ ~ReadsComment
    /\ TokenStart <= Len(input)
    /\ \E j \in (LineStart(TokenStart) + 1)..(TokenStart - 2) : input[j] = "\t"

\* C20: '<' followed by '>' is NotEqual and followed by '=' is LessEqual
\* (length 2), any other '<' is Less (length 1) and leaves the next character;
\* '>' followed by '=' is GreaterEqual (length 2), any other '>' is Greater
\* (length 1); '=' is always Equal (length 1).
C20_RelationalOperators ==
    (/\ fetched /\ TokenStart <= Len(input)
     /\ input[TokenStart] \in {"<", ">", "="}
     /\ input[TokenStart] = "=" \/ ~faulty \/ TokenStart < Len(input)) =>
        LET c   == input[TokenStart]
            nx  == IF TokenStart < Len(input) THEN input[TokenStart + 1] ELSE ""
            two == (c = "<" /\ nx \in {">", "="}) \/ (c = ">" /\ nx = "=")
            tok == CASE c = "<" /\ nx = ">" -> "NotEqual"
                     [] c = "<" /\ nx = "=" -> "LessEqual"
                     [] c = "<" /\ nx \notin {">", "="} -> "Less"
                     [] c = ">" /\ nx = "=" -> "GreaterEqual"
                     [] c = ">" /\ nx # "=" -> "Greater"
                     [] c = "=" -> "Equal"
        IN /\ result = OkSpan(Tok(tok), PosOf(TokenStart), IF two THEN 2 ELSE 1)
           /\ TokenEnd = TokenStart + (IF two THEN 1 ELSE 0)

\* A lone '<' or '>' or an '=' was read with an operator character right
\* after it.
C20_Witness ==
    /\ ReadOk /\ result.length = 1
    /\ result.token.t \in {"Less", "Greater", "Equal"}
    /\ TokenStart < Len(input)
    /\ input[TokenStart + 1] \in {"<", ">", "="}


\* The last operation handed out the n-th token of the input.
Handed(n) == op \in {"read", "consume_peeked"} /\ returned = n

\* The string literal whose opening quote is input[i - 1], read as the
\* rule says: a backslash copies the next character, an unescaped quote
\* ends the literal.  `last` is the index of the last character of the
\* literal.
RECURSIVE StringScan(_, _)
StringScan(i, content) ==
    IF i > Len(input)
    THEN [content |-> content, last |-> Len(input), closed |-> FALSE]
    ELSE IF input[i] = "\\"
    THEN IF i + 1 > Len(input)
         THEN [content |-> content, last |-> Len(input), closed |-> FALSE]
         ELSE StringScan(i + 2, Append(content, input[i + 1]))
    ELSE IF input[i] = "\""
    THEN [content |-> content, last |-> i, closed |-> TRUE]
    ELSE StringScan(i + 1, Append(content, input[i]))

\* The Lexer::read of the last operation started at a double quote.
AtString == fetched /\ TokenStart <= Len(input) /\ input[TokenStart] = "\""

StringRead == StringScan(TokenStart + 1, <<>>)

\* C21: a read that starts at a double quote and finds the closing one
\* takes the literal, a backslash copying the next character verbatim and
\* newlines and separators copied as they are, and returns Text(content) at
\* the opening quote with length character_count(content) + 2.
C21_TextLength ==
    (AtString /\ StringRead.closed) =>
        /\ result = OkSpan(TokText(StringRead.content), PosOf(TokenStart),
                           Len(StringRead.content) + 2)
        /\ TokenEnd = StringRead.last

a_quote_b_backslash_c == <<"a", "\"", "b", "\\", "c">>

\* C22 as stated: the 9 characters "a\"b\\c" yield Text(a"b\c) at 1:1 with
\* length 10.
C22_EscapedStringLength10 ==
    (input \in EscapeInputs /\ Handed(1)) =>
        result = OkSpan(TokText(a_quote_b_backslash_c), LineCol(1, 1), 10)

\* C22 as amended: the 9 characters "a\"b\\c" yield one Text(a"b\c) at 1:1
\* with length 7, the 5 characters of the content and the two quotes, and
\* then Eof.
C22_EscapedString ==
    (input \in EscapeInputs) =>
        /\ Handed(1) =>
              result = OkSpan(TokText(a_quote_b_backslash_c), LineCol(1, 1), 7)
        /\ (Handed(2) /\ ~faulty) => result = OkSpan(Tok("Eof"), LineCol(1, 10), 0)

\* The escaped string was read, and Eof after it.
C22_Witness ==
    /\ input \in EscapeInputs /\ Handed(2) /\ IsEof(result)
    /\ prev.k = "ok" /\ prev.token = TokText(a_quote_b_backslash_c)

\* The last read started a string literal that the end of the input cut short.
IncompleteString == AtString /\ ~StringRead.closed /\ ~faulty

\* C23: when the input ends before the closing quote, right after a
\* backslash included, the read takes the rest of the input and returns
\* Bad("Incomplete string due to EOF: " + content so far) at the opening
\* quote with length 1, and the read that follows returns Eof.
C23_IncompleteString ==
    [][/\ IncompleteString =>
            /\ result = OkSpan(TokBad(<<"Incomplete string due to EOF: ">>
                                          \o StringRead.content),
                               PosOf(TokenStart), 1)
            /\ TokenEnd = Len(input)
       /\ (IncompleteString /\ fetched') => IsEof(result')]_vars

\* An unterminated string that ends in a backslash, after another token, was
\* followed by the read of Eof.
C23_Witness ==
    /\ fetched /\ IsEof(result) /\ IsBad(prev)
    /\ prev.token.v[1] = "Incomplete string due to EOF: "
    /\ Len(prev.token.v) > 1
    /\ input[Len(input)] = "\\"
    /\ input[Len(input) - 1] # "\\"

\* The index of the last character of the run of word characters that
\* starts at input[i]; i - 1 when there is none.
RECURSIVE WordRunEnd(_)
WordRunEnd(i) ==
    IF i <= Len(input) /\ is_word(input[i]) THEN WordRunEnd(i + 1) ELSE i - 1

\* The Lexer::read of the last operation started at an '@' whose run of word
\* characters is ended by a separator or by the end of the input.
AtLabel ==
    /\ fetched /\ TokenStart <= Len(input) /\ input[TokenStart] = "@"
    /\ LET e == WordRunEnd(TokenStart + 1) IN
       \/ e < Len(input) /\ is_separator(input[e + 1])
       \/ e = Len(input) /\ ~faulty

LabelName == SubSeq(input, TokenStart + 1, WordRunEnd(TokenStart + 1))

\* C24: '@' and the word characters after it, a digit allowed first, yield
\* Label(name) at the '@' with length character_count(name) + 1; an '@'
\* directly followed by a separator or the end of the input yields
\* Bad("Empty label name") with length 1 and only the '@' is consumed.
C24_Label ==
    AtLabel =>
        /\ TokenEnd = WordRunEnd(TokenStart + 1)
        /\ IF LabelName = <<>>
           THEN result = OkSpan(TokBad(<<"Empty label name">>), PosOf(TokenStart), 1)
           ELSE result = OkSpan(TokLabel(LabelName), PosOf(TokenStart),
                                Len(LabelName) + 1)

\* The index of the last character of the run of digits that starts at
\* input[i].
RECURSIVE DigitRunEnd(_)
DigitRunEnd(i) ==
    IF i <= Len(input) /\ is_ascii_digit(input[i]) THEN DigitRunEnd(i + 1) ELSE i - 1

\* The Lexer::read of the last operation started at a run of digits that is
\* ended by a separator or by the end of the input.
AtDigitRun ==
    /\ fetched /\ TokenStart <= Len(input) /\ is_ascii_digit(input[TokenStart])
    /\ LET e == DigitRunEnd(TokenStart) IN
       \/ e < Len(input) /\ is_separator(input[e + 1])
       \/ e = Len(input) /\ ~faulty

DigitRun == SubSeq(input, TokenStart, DigitRunEnd(TokenStart))

\* Of two runs of digits of the same length, a is not the larger number.
RECURSIVE DigitsLeq(_, _)
DigitsLeq(a, b) ==
    \/ a = <<>>
    \/ DigitVal(Head(a)) < DigitVal(Head(b))
    \/ Head(a) = Head(b) /\ DigitsLeq(Tail(a), Tail(b))

\* The number written by the digits is at most 2147483647.
AtMostMaxI32(digits) ==
    LET d == StripLeadingZeros(digits) IN
    \/ Len(d) < 10
    \/ Len(d) = 10 /\ DigitsLeq(d, <<"2","1","4","7","4","8","3","6","4","7">>)

\* The number written by digits that fit.
RECURSIVE DecimalValue(_)
DecimalValue(digits) ==
    IF digits = <<>> THEN 0
    ELSE 10 * DecimalValue(SubSeq(digits, 1, Len(digits) - 1))
             + DigitVal(digits[Len(digits)])

\* C25: a run of digits without a dot yields Integer(v) with length the
\* number of digits when v is at most 2147483647, and otherwise
\* Bad("Bad integer <digits>: number too large to fit in target type") at
\* the first digit with length 1; the whole run is consumed and the
\* separator after it is what the next read starts with.
C25_Integer ==
    AtDigitRun =>
        LET e == DigitRunEnd(TokenStart) IN
        /\ IF AtMostMaxI32(DigitRun)
           THEN result = OkSpan(TokInteger(DecimalValue(DigitRun)),
                                PosOf(TokenStart), Len(DigitRun))
           ELSE result = OkSpan(TokBad(<<"Bad integer ">> \o DigitRun
                                   \o <<": number too large to fit in target type">>),
                                PosOf(TokenStart), 1)
        /\ TokenEnd = e
        /\ (e < Len(input)) =>
               (lexer.pk.some /\ lexer.pk.item = ChItem(input[e + 1], PosOf(e + 1)))

\* A run of digits one above the largest i32 was read as Bad, a '+' next.
C25_Witness ==
    /\ AtDigitRun /\ IsBad(result)
    /\ DigitRun = <<"2","1","4","7","4","8","3","6","4","8">>
    /\ TokenEnd < Len(input) /\ input[TokenEnd + 1] = "+"

\* The index of the last character of the run of digits and dots that
\* starts at input[i].
RECURSIVE NumberRunEnd(_)
NumberRunEnd(i) ==
    IF i <= Len(input) /\ (is_ascii_digit(input[i]) \/ input[i] = ".")
    THEN NumberRunEnd(i + 1) ELSE i - 1

\* The indices of the dots of the literal that starts at input[i].
DotsFrom(i) == { j \in i..NumberRunEnd(i) : input[j] = "." }

\* The Lexer::read of the last operation started at a digit.
AtNumber == fetched /\ TokenStart <= Len(input) /\ is_ascii_digit(input[TokenStart])

\* The literal of the last read: digits with exactly one dot, ended by a
\* separator or by the end of the input.
OneDotLiteral ==
    /\ AtNumber
    /\ Cardinality(DotsFrom(TokenStart)) = 1
    /\ LET e == NumberRunEnd(TokenStart) IN
       \/ e < Len(input) /\ is_separator(input[e + 1])
       \/ e = Len(input) /\ ~faulty

\* The decimal number a literal with one dot writes: its integral and
\* fractional digits, the zeros that do not change it left out.
DecimalOf(lit) ==
    LET dot == CHOOSE j \in DOMAIN lit : lit[j] = "." IN
    [ip |-> StripLeadingZeros(SubSeq(lit, 1, dot - 1)),
     fp |-> StripTrailingZeros(SubSeq(lit, dot + 1, Len(lit)))]

\* C26: digits with exactly one dot and a digit after it yield a Double of
\* the literal's value with length the number of characters of the literal;
\* when the dot is the last character of the literal the result is
\* Bad("Unknown character: .") at the initial digit with length 1; a second
\* dot is consumed and yields Bad("Too many dots in numeric literal") at the
\* initial digit, the characters after it skipped up to the next separator.
C26_Double ==
    /\ OneDotLiteral =>
          LET e   == NumberRunEnd(TokenStart)
              lit == SubSeq(input, TokenStart, e) IN
          /\ TokenEnd = e
          /\ IF input[e] = "."
             THEN result = OkSpan(TokBad(<<"Unknown character: ", ".">>),
                                  PosOf(TokenStart), 1)
             ELSE result = OkSpan(TokDouble(DecimalOf(lit)), PosOf(TokenStart), Len(lit))
    /\ (AtNumber /\ Cardinality(DotsFrom(TokenStart)) >= 2 /\ result.k = "ok") =>
          LET first  == CHOOSE j \in DotsFrom(TokenStart) :
                            \A k \in DotsFrom(TokenStart) : j <= k
              second == CHOOSE j \in DotsFrom(TokenStart) \ {first} :
                            \A k \in DotsFrom(TokenStart) \ {first} : j <= k IN
          /\ result.token = TokBad(<<"Too many dots in numeric literal">>)
          /\ result.pos = PosOf(TokenStart)
          /\ TokenEnd >= second
          /\ result.length = 1 + (TokenEnd - second)
          /\ \A j \in (second + 1)..TokenEnd : ~is_separator(input[j])
          /\ AtSeparatorOrEnd(lexer)

\* A literal with a second dot was read as Bad, a digit skipped after the
\* second dot.
C26_Witness ==
    /\ AtNumber /\ IsBad(result)
    /\ result.token.v = <<"Too many dots in numeric literal">>
    /\ result.length > 1
    /\ is_ascii_digit(input[TokenEnd])

\* The upper-case source form of a punctuation, operator, keyword or
\* type-name token: the spelling the lexer reads it from.
SourceForm(tok) ==
    IF \E kw \in KeywordTable : kw[2] = tok
    THEN (CHOOSE kw \in KeywordTable : kw[2] = tok)[1]
    ELSE IF \E ch \in SingleChars : ch \notin {"\n", ":"} /\ SingleCharToken(ch) = tok
    THEN <<CHOOSE ch \in SingleChars : ch \notin {"\n", ":"} /\ SingleCharToken(ch) = tok>>
    ELSE CASE tok.t = "Less"         -> <<"<">>
           [] tok.t = "LessEqual"    -> <<"<", "=">>
           [] tok.t = "NotEqual"     -> <<"<", ">">>
           [] tok.t = "Greater"      -> <<">">>
           [] tok.t = "GreaterEqual" -> <<">", "=">>

\* No two tokens with a fixed text are written alike.
DistinctRenderings ==
    \A a \in FixedTokens : \A b \in FixedTokens :
        (a # b) => (Display(a) # Display(b))

\* C27: what is printed for a returned token is its canonical rendering:
\* <<EOF>> for Eof, <<NEWLINE>> for Eol, <<s>> for Bad(s), TRUE or FALSE for
\* a Boolean, t for Text(t), @l for Label(l), and for a punctuation,
\* operator, keyword or type-name token its upper-case source form; no two
\* distinct tokens of the last kinds are written alike.
C27_CanonicalRendering ==
    /\ (result.k = "ok" /\ op \in {"read", "peek", "consume_peeked"}) =>
          LET tok == result.token IN
          echo = CASE tok.t = "Eof"     -> <<"<","<","E","O","F",">",">">>
                   [] tok.t = "Eol"     -> <<"<","<","N","E","W","L","I","N","E",">",">">>
                   [] tok.t = "Bad"     -> <<"<", "<">> \o tok.v \o <<">", ">">>
                   [] tok.t = "Boolean" -> IF tok.v[1] THEN <<"T","R","U","E">>
                                                       ELSE <<"F","A","L","S","E">>
                   [] tok.t = "Text"    -> tok.v
                   [] tok.t = "Label"   -> <<"@">> \o tok.v
                   [] tok.t \in {"Integer", "Double", "Symbol"} -> echo
                   [] OTHER             -> SourceForm(tok)
    /\ DistinctRenderings

\* A label was read after the operator <> and printed.
C27_Witness ==
    /\ op = "read" /\ result.k = "ok" /\ result.token.t = "Label"
    /\ echo = <<"@">> \o result.token.v
    /\ prev.k = "ok" /\ prev.token = Tok("NotEqual")

\* The messages of the Bad tokens that recovery inside a number, a symbol or
\* a label produces.
RecoveryMessages ==
    {"Unexpected character in numeric literal: ",
     "Unexpected character in symbol: ",
     "Unexpected character in label: ",
     "Too many dots in numeric literal"}

\* The last read returned the Bad token of an integer that does not fit, of
\* a literal that ends with its dot, of an empty label or of a string cut
\* short.
BadOnceComplete ==
    LET msg == result.token.v[1] IN
    \/ msg \in {"Bad integer ", "Empty label name", "Incomplete string due to EOF: "}
    \/ msg = "Unknown character: " /\ is_ascii_digit(input[TokenStart])

\* C28: the Bad token of recovery inside a number, symbol or label is at the
\* position of the token's first character, which is not the offending one,
\* and its length is 1 plus the number of characters after the offending one
\* up to the next separator or the end of the input, however many characters
\* came before it; the Bad tokens for integer overflow, a trailing dot, an
\* empty label and an incomplete string have length 1.
C28_BadSpan ==
    (fetched /\ IsBad(result)) =>
        /\ (result.token.v[1] \in RecoveryMessages) =>
              /\ OffendingIdx > TokenStart
              /\ result.pos = PosOf(TokenStart)
              /\ result.pos # PosOf(OffendingIdx)
              /\ result.length = NextSeparator(OffendingIdx + 1) - OffendingIdx
        /\ BadOnceComplete => result.length = 1

\* A label was found bad at its third character, one more character skipped.
C28_Witness ==
    /\ fetched /\ IsBad(result)
    /\ result.token.v[1] = "Unexpected character in label: "
    /\ OffendingIdx = TokenStart + 2
    /\ result.length = 2

\* The Lexer::read of the last operation started a token and the reader
\* failed when the lexer looked for what follows: after the digits of a
\* number, after the letters of a symbol or of a label, after a lone '<' or
\* '>', or inside a string.
LookAheadFails ==
    /\ fetched /\ faulty /\ TokenStart <= Len(input)
    /\ LET ch == input[TokenStart] IN
       \/ is_ascii_digit(ch) /\ NumberRunEnd(TokenStart) = Len(input)
       \/ is_word(ch) /\ ~is_ascii_digit(ch) /\ WordRunEnd(TokenStart) = Len(input)
       \/ ch = "@" /\ WordRunEnd(TokenStart + 1) = Len(input)
       \/ ch \in {"<", ">"} /\ TokenStart = Len(input)
       \/ ch = "\"" /\ ~StringRead.closed

\* C29: when the reader raises an error while the lexer looks ahead for the
\* continuation of a token, the read returns the error of the reader with
\* the characters of the token taken out of the reader, and every later
\* operation returns an error too: the token is never returned.
C29_ErrorDropsToken ==
    [][/\ LookAheadFails =>
            /\ result = ErrRes("InvalidData")
            /\ TokenEnd = Len(input)
            /\ peeked = NoRes
       /\ (result.k = "err") => (result'.k = "err")]_vars

\* Two reads in a row failed, the first one after a '<' at the end of the
\* input.
C29_Witness ==
    /\ op = "read" /\ fetched /\ result = ErrRes("Other")
    /\ prev = ErrRes("InvalidData")
    /\ input[Len(input)] = "<"
    /\ Consumed(before) = Len(input)

\* The tokens whose rendering C30 lexes back.
RoundTripTokens == FixedTokens \cup {TokBoolean(TRUE), TokBoolean(FALSE)}

\* C30: lexing what Display writes for a punctuation, operator, keyword,
\* type-name or Boolean token yields that token and then Eof; lexing what
\* Display writes for Label(l), l a non-empty run of word characters, yields
\* Label(l) and then Eof.
C30_RenderingLexesBack ==
    ~faulty =>
        /\ \A tok \in RoundTripTokens :
              (input = Display(tok)) =>
                  /\ Handed(1) => (result.k = "ok" /\ result.token = tok
                                   /\ result.pos = LineCol(1, 1))
                  /\ Handed(2) => IsEof(result)
        /\ \A l \in {input, SubSeq(input, 2, Len(input))} :
              (l # <<>> /\ IsWordString(l) /\ input = Display(TokLabel(l))) =>
                  /\ Handed(1) => (result.k = "ok" /\ result.token = TokLabel(l)
                                   /\ result.pos = LineCol(1, 1))
                  /\ Handed(2) => IsEof(result)

\* The rendering of TextName was lexed back, and Eof after it.
C30_Witness ==
    /\ ~faulty /\ input = Display(Tok("TextName"))
    /\ Handed(2) /\ IsEof(result)
    /\ prev.k = "ok" /\ prev.token = Tok("TextName")

\* C31: an Integer or Double token returned by a read is not negative: its
\* value is written by digits alone; a read that starts at '-' takes that
\* one character and returns Minus with length 1 at its position, so that
\* the sign is never part of the number that follows it.
C31_NumbersNotNegative ==
    /\ (ReadOk /\ result.token.t = "Integer") =>
          /\ result.token.v[1] >= 0
          /\ is_ascii_digit(input[TokenStart])
    /\ (ReadOk /\ result.token.t = "Double") =>
          /\ \A i \in DOMAIN result.token.v.ip : is_ascii_digit(result.token.v.ip[i])
          /\ \A i \in DOMAIN result.token.v.fp : is_ascii_digit(result.token.v.fp[i])
          /\ is_ascii_digit(input[TokenStart])
    /\ (fetched /\ TokenStart <= Len(input) /\ input[TokenStart] = "-") =>
          /\ result = OkSpan(Tok("Minus"), PosOf(TokenStart), 1)
          /\ TokenEnd = TokenStart

\* A number was read right after a Minus.
C31_Witness ==
    /\ ReadOk /\ result.token.t \in {"Integer", "Double"}
    /\ TokenStart > 1 /\ input[TokenStart - 1] = "-"
    /\ prev = OkSpan(Tok("Minus"), PosOf(TokenStart - 1), 1)

(***************************************************************************)
(* endbasic_terminal: the key handler task of TerminalConsole, the key     *)
(* channel it feeds, the signals channel, and the users of both.           *)
(***************************************************************************)
MaxEvents == 3
MaxCalls == 3

LexerUnused ==
    /\ input = <<>> /\ faulty = FALSE
    /\ lexer = NewLexer /\ wrapped = FALSE /\ peeked = NoRes
    /\ op = "from" /\ fetched = FALSE
    /\ result = NoRes /\ prev = NoRes /\ before = NewLexer
    /\ returned = 0 /\ echo = <<>>

\* What event::read() hands to raw_key_handler: the press of a plain key, of
\* CTRL+C, of CTRL+D, a key event that is not a press, an event that is not
\* a key event, an error.
RawEvents == {"Char", "CtrlC", "CtrlD", "Release", "Resize", "Err"}

\* What read_key_from_stdin hands to stdio_key_handler: a key, the end of
\* stdin, an error.
StdinEvents == {"Char", "CtrlD", "Err"}

\* The key raw_key_handler makes of an event; "" when it goes on to the next
\* event.
RawKey(ev) ==
    CASE ev = "Char"    -> "Char"
      [] ev = "CtrlC"   -> "Interrupt"
      [] ev = "CtrlD"   -> "Eof"
      [] ev = "Release" -> ""
      [] ev = "Resize"  -> ""
      [] ev = "Err"     -> "Unknown"

\* The key stdio_key_handler makes of what read_key_from_stdin returned.
StdinKey(ev) ==
    CASE ev = "Char"  -> "Char"
      [] ev = "CtrlD" -> "Eof"
      [] ev = "Err"   -> "Unknown"

KeyNames == {"Char", "Interrupt", "Eof", "Unknown"}

\* TerminalConsole::from_stdio_with_injector, for the events the terminal
\* will deliver; `injector` tells whether the caller kept the key sender.
NewTerminal(is_tty, injector, events) ==
    [is_tty     |-> is_tty,
     injector   |-> injector,
     events     |-> events,
     hpc        |-> "read",
     key        |-> "",
     keyq       |-> <<>>,
     keyClosed  |-> FALSE,
     sigq       |-> 0,
     sigClosed  |-> FALSE,
     sigRx      |-> TRUE,
     console    |-> TRUE,
     calls      |-> 0,
     lastop     |-> "",
     last       |-> "",
     delivered  |-> <<>>,
     injected   |-> 0,
     hlog       |-> <<>>]

KeysInit ==
    /\ \E is_tty \in BOOLEAN, injector \in BOOLEAN :
       \E events \in SeqsUpTo(IF is_tty THEN RawEvents ELSE StdinEvents, MaxEvents) :
           term = NewTerminal(is_tty, injector, events)
    /\ LexerUnused
    /\ out = NotRunning /\ lcd = NotRunning /\ enc = NotRunning

\* async_channel::Sender::send on an unbounded channel: the message is
\* queued unless the channel is closed.
ChannelSend(q, closed, msg) == IF closed THEN q ELSE Append(q, msg)

\* raw_key_handler: event::read() and the translation of the event
raw_key_handler_Read ==
    /\ term.is_tty /\ term.hpc = "read" /\ term.events # <<>>
    /\ LET key == RawKey(Head(term.events)) IN
       term' = IF key = ""
               THEN [term EXCEPT !.events = Tail(@)]
               ELSE [term EXCEPT !.events = Tail(@), !.key = key,
                                 !.hpc = IF key = "Interrupt" THEN "signal" ELSE "send"]
    /\ UNCHANGED <<lexVars, out, lcd, enc>>

\* raw_key_handler's send of the key placed before its send of the signal.
raw_key_handler_Signal_AfterKey ==
    /\ term.is_tty /\ term.hpc = "signal"
    /\ term' = [term EXCEPT
                   !.keyq = ChannelSend(@, term.keyClosed, term.key),
                   !.sigq = @ + 1,
                   !.hlog = @ \o <<IF term.keyClosed THEN "lost" ELSE term.key, "Break">>,
                   !.hpc  = "read"]
    /\ UNCHANGED <<lexVars, out, lcd, enc>>

\* raw_key_handler: signals_tx.send(Signal::Break).await.expect(..).  On a
\* closed channel the send fails and expect panics: the task ends and drops
\* its two senders, which closes the key channel unless the caller kept the
\* injector.
raw_key_handler_Signal ==
    /\ term.is_tty /\ term.hpc = "signal"
    /\ term' = IF term.sigClosed
               THEN [term EXCEPT !.hpc = "panicked",
                                 !.keyClosed = @ \/ ~term.injector]
               ELSE [term EXCEPT !.sigq = @ + 1, !.hlog = Append(@, "Break"),
                                 !.hpc = "send"]
    /\ UNCHANGED <<lexVars, out, lcd, enc>>

\* raw_key_handler: let _ = on_key_tx.send(key).await, and the loop test
raw_key_handler_Send ==
    /\ term.is_tty /\ term.hpc = "send"
    /\ term' = [term EXCEPT
                   !.keyq = ChannelSend(@, term.keyClosed, term.key),
                   !.hlog = Append(@, IF term.keyClosed THEN "lost" ELSE term.key),
                   !.hpc  = IF term.key = "Eof" THEN "close_signals" ELSE "read"]
    /\ UNCHANGED <<lexVars, out, lcd, enc>>

\* raw_key_handler: signals_tx.close()
raw_key_handler_CloseSignals ==
    /\ term.is_tty /\ term.hpc = "close_signals"
    /\ term' = [term EXCEPT !.sigClosed = TRUE, !.hlog = Append(@, "close_signals"),
                            !.hpc = "close_keys"]
    /\ UNCHANGED <<lexVars, out, lcd, enc>>

\* raw_key_handler: on_key_tx.close()
raw_key_handler_CloseKeys ==
    /\ term.is_tty /\ term.hpc = "close_keys"
    /\ term' = [term EXCEPT !.keyClosed = TRUE, !.hlog = Append(@, "close_keys"),
                            !.hpc = "done"]
    /\ UNCHANGED <<lexVars, out, lcd, enc>>

\* stdio_key_handler: read_key_from_stdin
stdio_key_handler_Read ==
    /\ ~term.is_tty /\ term.hpc = "read" /\ term.events # <<>>
    /\ term' = [term EXCEPT !.events = Tail(@), !.key = StdinKey(Head(term.events)),
                            !.hpc = "send"]
    /\ UNCHANGED <<lexVars, out, lcd, enc>>

\* stdio_key_handler: let _ = on_key_tx.send(key).await, and the loop test
stdio_key_handler_Send ==
    /\ ~term.is_tty /\ term.hpc = "send"
    /\ term' = [term EXCEPT
                   !.keyq = ChannelSend(@, term.keyClosed, term.key),
                   !.hlog = Append(@, IF term.keyClosed THEN "lost" ELSE term.key),
                   !.hpc  = IF term.key = "Eof" THEN "close_keys" ELSE "read"]
    /\ UNCHANGED <<lexVars, out, lcd, enc>>

\* stdio_key_handler: on_key_tx.close()
stdio_key_handler_Close ==
    /\ ~term.is_tty /\ term.hpc = "close_keys"
    /\ term' = [term EXCEPT !.keyClosed = TRUE, !.hlog = Append(@, "close_keys"),
                            !.hpc = "done"]
    /\ UNCHANGED <<lexVars, out, lcd, enc>>

\* What a call of read_key or poll_key leaves behind: its name and result.
Called(name, res) ==
    [term EXCEPT !.calls = @ + 1, !.lastop = name, !.last = res,
                 !.keyq = IF @ # <<>> THEN Tail(@) ELSE @,
                 !.delivered = IF res = "None" THEN @ ELSE Append(@, res)]

\* self.on_key_rx.recv().await returns: a key is queued or the channel is
\* closed.
read_key_Ready == term.keyq # <<>> \/ term.keyClosed

\* poll_key that answers None on a closed channel.
poll_key_ClosedIsNone ==
    /\ term.console /\ term.calls < MaxCalls
    /\ term' = IF term.keyq # <<>> THEN Called("poll_key", Head(term.keyq))
               ELSE Called("poll_key", "None")
    /\ UNCHANGED <<lexVars, out, lcd, enc>>

\* <TerminalConsole as InputOps>::poll_key
poll_key ==
    /\ term.console /\ term.calls < MaxCalls
    /\ term' = IF term.keyq # <<>> THEN Called("poll_key", Head(term.keyq))
               ELSE IF term.keyClosed THEN Called("poll_key", "Eof")
               ELSE Called("poll_key", "None")
    /\ UNCHANGED <<lexVars, out, lcd, enc>>

\* <TerminalConsole as InputOps>::read_key
read_key ==
    /\ term.console /\ term.calls < MaxCalls
    /\ read_key_Ready
    /\ term' = IF term.keyq # <<>> THEN Called("read_key", Head(term.keyq))
               ELSE Called("read_key", "Eof")
    /\ UNCHANGED <<lexVars, out, lcd, enc>>

\* The console is dropped and its receiver with it, which closes the key
\* channel; the handler task is not awaited.
drop_console ==
    /\ term.console
    /\ term' = [term EXCEPT !.console = FALSE, !.keyClosed = TRUE]
    /\ UNCHANGED <<lexVars, out, lcd, enc>>

\* The holder of the injector sends a key of its own.
inject_key ==
    /\ term.injector /\ term.injected < 1
    /\ term' = [term EXCEPT !.injected = @ + 1,
                            !.keyq = ChannelSend(@, term.keyClosed, "Injected")]
    /\ UNCHANGED <<lexVars, out, lcd, enc>>

\* The consumer of the signals channel receives a signal.
recv_signal ==
    /\ term.sigRx /\ term.sigq > 0
    /\ term' = [term EXCEPT !.sigq = @ - 1]
    /\ UNCHANGED <<lexVars, out, lcd, enc>>

\* The consumer of the signals channel closes or drops its receiver.
drop_signals_receiver ==
    /\ term.sigRx
    /\ term' = [term EXCEPT !.sigRx = FALSE, !.sigClosed = TRUE]
    /\ UNCHANGED <<lexVars, out, lcd, enc>>

KeysNext ==
    \/ raw_key_handler_Read \/ raw_key_handler_Signal \/ raw_key_handler_Send
    \/ raw_key_handler_CloseSignals \/ raw_key_handler_CloseKeys
    \/ stdio_key_handler_Read \/ stdio_key_handler_Send \/ stdio_key_handler_Close
    \/ poll_key \/ read_key \/ drop_console
    \/ inject_key \/ recv_signal \/ drop_signals_receiver

KeysSpec == KeysInit /\ [][KeysNext]_vars

IsKey(x) == x \in KeyNames

\* The keys the handler task has put on the key channel, in order.
ProducedKeys == SelectSeq(term.hlog, IsKey)

\* The keys of the handler that read_key and poll_key have returned.
DeliveredKeys == SelectSeq(term.delivered, IsKey)

\* The handler has forwarded Key::Eof and closed the key channel.
HandlerFinished ==
    /\ term.hpc = "done"
    /\ \E i \in DOMAIN term.hlog : term.hlog[i] = "Eof"

\* C32: read_key and poll_key return the keys of the handler in the order
\* it produced them; once the handler has forwarded Key::Eof and closed the
\* key channel, a call returns the next queued key while there is one and
\* Key::Eof from then on, and read_key does not block.
C32_KeysInOrderThenEof ==
    [][/\ LET d == DeliveredKeys
              p == ProducedKeys IN
          \E n \in 0..Len(d) :
              /\ n <= Len(p)
              /\ SubSeq(d, 1, n) = SubSeq(p, 1, n)
              /\ (n < Len(d)) =>
                    /\ n = Len(p) /\ term.keyClosed
                    /\ \A j \in (n + 1)..Len(d) : d[j] = "Eof"
       /\ (HandlerFinished /\ term.console) => read_key_Ready
       /\ (HandlerFinished /\ term'.calls > term.calls) =>
              term'.last = IF term.keyq # <<>> THEN Head(term.keyq) ELSE "Eof"]_vars

\* After the handler finished, its two keys were returned and then poll_key
\* returned Eof for the closed channel.
C32_Witness ==
    /\ HandlerFinished /\ term.lastop = "poll_key" /\ term.keyq = <<>>
    /\ Len(ProducedKeys) = 2
    /\ term.delivered = ProducedKeys \o <<"Eof">>

\* C33 as stated: the Break of a CTRL+C is sent before its Interrupt is
\* queued, and the handler closes the two channels only after Key::Eof has
\* been queued.
C33_ClosedAfterEofQueued ==
    /\ \A i \in DOMAIN term.hlog :
          (term.is_tty /\ term.hlog[i] = "Interrupt") => (i > 1 /\ term.hlog[i - 1] = "Break")
    /\ \A i \in DOMAIN term.hlog :
          (term.hlog[i] \in {"close_signals", "close_keys"}) =>
              \E j \in 1..(i - 1) : term.hlog[j] = "Eof"

\* C33 as amended: the Break of a CTRL+C is sent before its Interrupt is
\* queued or lost, and raw_key_handler closes the signals channel and then
\* the key channel only after it has read Key::Eof and tried to queue it;
\* the Eof is queued unless the key channel was closed by then.
C33_BreakFirstCloseLast ==
    term.is_tty =>
        /\ \A i \in DOMAIN term.hlog :
              (term.hlog[i] = "Interrupt") => (i > 1 /\ term.hlog[i - 1] = "Break")
        /\ \A i \in DOMAIN term.hlog :
              (term.hlog[i] = "Break") =>
                  (i = Len(term.hlog) /\ term.hpc = "send" /\ term.key = "Interrupt")
                      \/ (i < Len(term.hlog) /\ term.hlog[i + 1] \in {"Interrupt", "lost"})
        /\ \A i \in DOMAIN term.hlog :
              (term.hlog[i] = "close_signals") =>
                  /\ term.key = "Eof"
                  /\ i > 1 /\ term.hlog[i - 1] \in {"Eof", "lost"}
                  /\ (term.hlog[i - 1] = "lost") => term.keyClosed
        /\ \A i \in DOMAIN term.hlog :
              (term.hlog[i] = "close_keys") =>
                  (i > 1 /\ term.hlog[i - 1] = "close_signals" /\ i = Len(term.hlog))

\* The handler sent a Break, queued the Interrupt, queued Eof and closed both
\* channels.
C33_Witness ==
    /\ term.is_tty
    /\ term.hlog = <<"Break", "Interrupt", "Eof", "close_signals", "close_keys">>

\* C34: the send of Signal::Break never fails, so that the expect on it
\* never panics, whatever the consumer of the signals channel has done.
C34_SignalSendNeverFails == term.hpc # "panicked"

-----------------------------------------------------------------------------
\* The output side of TerminalConsole (src/terminal/src/lib.rs 228-448).
\*
\* out is the console together with the process's stdout: the console's
\* fields, the bytes and commands stdout holds unflushed (pending), the
\* alternate-screen commands emitted so far, and a record of the last call.
\* Every call on stdout (queue, write_all, flush) may fail; a call of `?`
\* then returns the error at once.  stdout is Rust's: whether it writes
\* through at a newline (line buffering) is decided outside the repository
\* and is a choice of the initial state.

MaxOps == 4

Colors == {"None", "1"}

ClearTypes == {"All", "CurrentLine", "PreviousChar", "UntilNewLine"}

Offsets == {-1, 0, 1}

AltCommands == {"EnterAlternateScreen", "LeaveAlternateScreen"}

Writers ==
    {"clear", "set_color", "enter_alt", "leave_alt", "hide_cursor",
     "show_cursor", "locate", "move_within_line", "write", "print"}

NewConsole(is_tty, lineBuffered) ==
    [ is_tty         |-> is_tty,
      lineBuffered   |-> lineBuffered,
      fg_color       |-> "None",
      bg_color       |-> "None",
      cursor_visible |-> TRUE,
      alt_active     |-> FALSE,
      sync_enabled   |-> TRUE,
      pending        |-> <<>>,
      emitted        |-> <<>>,
      ops            |-> 0,
      lastOp         |-> "new",
      lastRes        |-> "ok",
      wrote          |-> <<>>,
      flushed        |-> FALSE,
      syncBefore     |-> TRUE,
      altBefore      |-> FALSE,
      pendingBefore  |-> <<>>,
      altOk          |-> TRUE ]

ConsoleInit ==
    /\ \E is_tty \in BOOLEAN, lineBuffered \in BOOLEAN :
           out = NewConsole(is_tty, lineBuffered)
    /\ term = NotRunning /\ lcd = NotRunning /\ enc = NotRunning
    /\ LexerUnused

LineEndings == {"\r\n", "\n"}

\* What stdout still holds after buf was written to it: a line-buffered
\* stdout writes everything up to the last newline through.
Buffered(lineBuffered, buf) ==
    IF lineBuffered /\ \E i \in DOMAIN buf : buf[i] \in LineEndings
    THEN LET last == CHOOSE i \in DOMAIN buf :
                         /\ buf[i] \in LineEndings
                         /\ \A j \in DOMAIN buf :
                                buf[j] \in LineEndings => j <= i
         IN  SubSeq(buf, last + 1, Len(buf))
    ELSE buf

\* One call of the console: the items it tried to put on stdout, how many of
\* them stdout accepted before it failed (all of them when it did not), the
\* fields the call assigned, whether it ends in maybe_flush (flush) or in a
\* flush of its own (force), and whether that flush fails.
Call(o, name, items, n, assigned, flush, force, flushFails) ==
    LET queued   == SubSeq(items, 1, n)
        complete == n = Len(items)
        buf      == Buffered(o.lineBuffered, o.pending \o queued)
        flushing == complete /\ (force \/ (flush /\ o.sync_enabled))
        res      == IF ~complete \/ (flushing /\ flushFails)
                    THEN "err" ELSE "ok"
        through  == Len(buf) < Len(o.pending) + Len(queued)
    IN  [ pending       |-> IF flushing /\ ~flushFails THEN <<>> ELSE buf,
          emitted       |-> o.emitted \o
                            SelectSeq(queued, LAMBDA c : c \in AltCommands),
          ops           |-> o.ops + 1,
          lastOp        |-> name,
          lastRes       |-> res,
          wrote         |-> queued,
          flushed       |-> (flushing /\ ~flushFails) \/ through,
          syncBefore    |-> o.sync_enabled,
          altBefore     |-> o.alt_active,
          pendingBefore |-> o.pending,
          altOk         |-> o.altOk /\ (name \in {"enter_alt", "leave_alt"}
                                         => res = "ok") ]
        @@ assigned @@ o

\* A call that assigns no field.
Nothing == [f \in {} |-> FALSE]

\* maybe_flush, as the tail of a call that put items on stdout.
maybe_flush(name, items, assigned) ==
    /\ out.ops < MaxOps
    /\ \E n \in 0..Len(items), flushFails \in BOOLEAN :
           out' = Call(out, name, items, n,
                       IF n = Len(items) THEN assigned ELSE Nothing,
                       TRUE, FALSE, flushFails)
    /\ UNCHANGED <<lexVars, term, lcd, enc>>

clear ==
    \E how \in ClearTypes :
        maybe_flush("clear",
                    CASE how = "PreviousChar" -> <<"BS SP BS">>
                      [] how = "All"          -> <<"Clear", "MoveTo">>
                      [] OTHER                -> <<"Clear">>,
                    Nothing)

set_color ==
    /\ out.ops < MaxOps
    /\ \E fg \in Colors, bg \in Colors :
        LET items == (IF fg # out.fg_color
                      THEN <<"SetForegroundColor">> ELSE <<>>)
                     \o (IF bg # out.bg_color
                         THEN <<"SetBackgroundColor">> ELSE <<>>)
        IN  \E n \in 0..Len(items), flushFails \in BOOLEAN :
                out' = Call(out, "set_color", items, n,
                            [ fg_color |->
                                IF n >= 1 /\ fg # out.fg_color
                                THEN fg ELSE out.fg_color,
                              bg_color |->
                                IF n = Len(items) THEN bg ELSE out.bg_color ],
                            items # <<>>, FALSE, flushFails)
    /\ UNCHANGED <<lexVars, term, lcd, enc>>

enter_alt_Always ==
    maybe_flush("enter_alt", <<"EnterAlternateScreen">>, [alt_active |-> TRUE])

enter_alt ==
    IF ~out.alt_active
    THEN maybe_flush("enter_alt", <<"EnterAlternateScreen">>,
                     [alt_active |-> TRUE])
    ELSE /\ out.ops < MaxOps
         /\ out' = Call(out, "enter_alt", <<>>, 0, Nothing,
                        FALSE, FALSE, FALSE)
         /\ UNCHANGED <<lexVars, term, lcd, enc>>

hide_cursor ==
    IF out.cursor_visible
    THEN maybe_flush("hide_cursor", <<"Hide">>, [cursor_visible |-> FALSE])
    ELSE /\ out.ops < MaxOps
         /\ out' = Call(out, "hide_cursor", <<>>, 0, Nothing,
                        FALSE, FALSE, FALSE)
         /\ UNCHANGED <<lexVars, term, lcd, enc>>

leave_alt ==
    IF out.alt_active
    THEN maybe_flush("leave_alt", <<"LeaveAlternateScreen">>,
                     [alt_active |-> FALSE])
    ELSE /\ out.ops < MaxOps
         /\ out' = Call(out, "leave_alt", <<>>, 0, Nothing,
                        FALSE, FALSE, FALSE)
         /\ UNCHANGED <<lexVars, term, lcd, enc>>

locate ==
    maybe_flush("locate", <<"MoveTo">>, Nothing)

move_within_line ==
    \E off \in Offsets :
        IF off = 0
        THEN /\ out.ops < MaxOps
             /\ out' = Call(out, "move_within_line", <<>>, 0, Nothing,
                            FALSE, FALSE, FALSE)
             /\ UNCHANGED <<lexVars, term, lcd, enc>>
        ELSE maybe_flush("move_within_line",
                         IF off < 0 THEN <<"MoveLeft">> ELSE <<"MoveRight">>,
                         Nothing)

\* print writes the text and the line ending and returns Ok(()): it is the
\* one writer that does not end in maybe_flush.
print ==
    /\ out.ops < MaxOps
    /\ \E n \in 0..2 :
           out' = Call(out, "print",
                       <<"text", IF out.is_tty THEN "\r\n" ELSE "\n">>, n,
                       Nothing, FALSE, FALSE, FALSE)
    /\ UNCHANGED <<lexVars, term, lcd, enc>>

show_cursor ==
    IF ~out.cursor_visible
    THEN maybe_flush("show_cursor", <<"Show">>, [cursor_visible |-> TRUE])
    ELSE /\ out.ops < MaxOps
         /\ out' = Call(out, "show_cursor", <<>>, 0, Nothing,
                        FALSE, FALSE, FALSE)
         /\ UNCHANGED <<lexVars, term, lcd, enc>>

write ==
    maybe_flush("write", <<"text">>, Nothing)

sync_now ==
    /\ out.ops < MaxOps
    /\ \E flushFails \in BOOLEAN :
           out' = Call(out, "sync_now", <<>>, 0, Nothing,
                       FALSE, ~out.sync_enabled, flushFails)
    /\ UNCHANGED <<lexVars, term, lcd, enc>>

set_sync ==
    /\ out.ops < MaxOps
    /\ \E enabled \in BOOLEAN, flushFails \in BOOLEAN :
           out' = Call(out, "set_sync", <<>>, 0,
                       [ sync_enabled |->
                           IF ~out.sync_enabled /\ flushFails
                           THEN out.sync_enabled ELSE enabled ],
                       FALSE, ~out.sync_enabled, flushFails)
    /\ UNCHANGED <<lexVars, term, lcd, enc>>

ConsoleNext ==
    \/ clear
    \/ set_color
    \/ enter_alt
    \/ hide_cursor
    \/ leave_alt
    \/ locate
    \/ move_within_line
    \/ print
    \/ show_cursor
    \/ write
    \/ sync_now
    \/ set_sync

ConsoleSpec == ConsoleInit /\ [][ConsoleNext]_vars

\* C35: while syncing is enabled, every writer that put something on stdout
\* and returned Ok has flushed stdout, so that nothing is left pending; while
\* syncing is disabled no writer lets anything out of stdout's buffer; and a
\* sync_now or set_sync that returns Ok with syncing disabled leaves nothing
\* pending.
C35_SyncedWritersFlush ==
    /\ (out.lastOp \in Writers /\ out.lastRes = "ok" /\ out.wrote # <<>>) =>
           IF out.syncBefore
           THEN out.flushed /\ out.pending = <<>>
           ELSE ~out.flushed /\ out.pending = out.pendingBefore \o out.wrote
    /\ (out.lastOp \in {"sync_now", "set_sync"} /\ out.lastRes = "ok"
            /\ ~out.syncBefore) =>
           out.flushed /\ out.pending = <<>>

Alternates(emitted) ==
    \A i \in DOMAIN emitted :
        emitted[i] = IF i % 2 = 1 THEN "EnterAlternateScreen"
                                  ELSE "LeaveAlternateScreen"

\* C36: as long as every enter_alt and leave_alt returned Ok, the commands
\* emitted are Enter, Leave, Enter, ... in strict alternation, alt_active
\* tells whether the last one was Enter, and an enter_alt on an active
\* alternate screen or a leave_alt on an inactive one put nothing on stdout.
C36_AltCommandsAlternate ==
    out.altOk =>
        /\ Alternates(out.emitted)
        /\ out.alt_active =
               (/\ out.emitted # <<>>
                /\ out.emitted[Len(out.emitted)] = "EnterAlternateScreen")
        /\ (out.lastOp = "enter_alt" /\ out.altBefore => out.wrote = <<>>)
        /\ (out.lastOp = "leave_alt" /\ ~out.altBefore => out.wrote = <<>>)

\* The alternate screen was entered, left and entered again, and then
\* enter_alt was called once more.
C36_Witness ==
    /\ out.altOk
    /\ out.emitted = <<"EnterAlternateScreen", "LeaveAlternateScreen",
                       "EnterAlternateScreen">>
    /\ out.lastOp = "enter_alt" /\ out.lastRes = "ok"
    /\ out.altBefore
    /\ out.wrote = <<>>

-----------------------------------------------------------------------------
\* The ST7735S LCD driver's path to the SPI bus
\* (src/rpi/src/st7735s.rs 116-142, 246-264, 291-295).
\*
\* lcd is one call of set_data: the lcd_write it is in (stage 1 to 6: the
\* registers 0x2a, 0x2b and 0x2c, the two window coordinates and the pixel
\* data), the chunk and the offset i of lcd_write's loops, the level of the
\* DC pin, and the log of what went over the bus: one entry per spi.write
\* that wrote something, with the stage, the offset of its first byte in the
\* data of that lcd_write, the number of bytes the bus took, the number it
\* was offered, and the level of DC.  spi.write returns an error or the
\* number of bytes written, any number from 0 to the length offered.

ChunkSize == 4096

MaxShort == 2

DataLens == {0, 1, 2, ChunkSize, ChunkSize + 1, 2 * ChunkSize + 1}

Window == [x |-> 0, y |-> 0, width |-> 128, height |-> 128]

\* The bytes lcd_set_window sends, by stage.
WindowBytes(w) ==
    << <<42>>,
       <<0, ((w.x % 256) + 1) % 256, 0, (w.x + w.width + 1 - 1) % 256>>,
       <<43>>,
       <<0, ((w.y % 256) + 2) % 256, 0, (w.y + w.height + 2 - 1) % 256>>,
       <<44>> >>

Pixels == 6

StageLen(l, stage) ==
    IF stage = Pixels THEN l.datalen ELSE Len(WindowBytes(Window)[stage])

\* lcd_write_reg sets DC low, lcd_write_data sets it high.
StageDC(stage) == IF stage \in {1, 3, 5} THEN "Low" ELSE "High"

Min(a, b) == IF a < b THEN a ELSE b

\* The chunk of data.chunks(4096) that starts at offset chunk.
ChunkLen(len, chunk) == Min(ChunkSize, len - chunk)

NewLcd ==
    [ pc      |-> "idle",
      datalen |-> 0,
      stage   |-> 0,
      chunk   |-> 0,
      i       |-> 0,
      dc      |-> "unset",
      bus     |-> <<>>,
      short   |-> 0,
      res     |-> "none" ]

LcdInit ==
    /\ lcd = NewLcd
    /\ term = NotRunning /\ out = NotRunning /\ enc = NotRunning
    /\ LexerUnused

\* lcd_write_reg or lcd_write_data of the given stage up to the first
\* spi.write: DC is set and lcd_write enters its first chunk; when the data
\* is empty there is no chunk, lcd_write returns Ok and, the pixel data
\* being the last stage, so does set_data.
Enter(l, stage) ==
    IF StageLen(l, stage) = 0
    THEN [l EXCEPT !.stage = stage, !.dc = StageDC(stage),
                   !.pc = "done", !.res = "ok"]
    ELSE [l EXCEPT !.stage = stage, !.dc = StageDC(stage),
                   !.chunk = 0, !.i = 0, !.pc = "spi.write"]

\* lcd_write after the loop over one chunk was left: the next chunk, or Ok
\* and with it the next stage of set_data.
NextChunk(l) ==
    LET next == l.chunk + ChunkLen(StageLen(l, l.stage), l.chunk)
    IN  IF next < StageLen(l, l.stage)
        THEN [l EXCEPT !.chunk = next, !.i = 0]
        ELSE IF l.stage = Pixels
             THEN [l EXCEPT !.pc = "done", !.res = "ok"]
             ELSE Enter(l, l.stage + 1)

\* What is offered to the next spi.write: &chunk[i..].
Offered(l) == ChunkLen(StageLen(l, l.stage), l.chunk) - l.i

\* The numbers of bytes a spi.write of m bytes may report.
Written(l, m) ==
    {m} \cup (IF l.short < MaxShort THEN {0, 1, m - 1} \cap 0..m ELSE {})

set_data ==
    /\ lcd.pc = "idle"
    /\ \E datalen \in DataLens :
           lcd' = Enter([lcd EXCEPT !.datalen = datalen], 1)
    /\ UNCHANGED <<lexVars, term, out, enc>>

\* spi.write fails: the ? returns the error from lcd_write and set_data.
lcd_write_Err ==
    /\ lcd.pc = "spi.write"
    /\ lcd' = [lcd EXCEPT !.pc = "done", !.res = "err"]
    /\ UNCHANGED <<lexVars, term, out, enc>>

\* spi.write wrote n > 0 bytes: i += n.
lcd_write_Wrote ==
    /\ lcd.pc = "spi.write"
    /\ \E n \in Written(lcd, Offered(lcd)) \ {0} :
           lcd' = [lcd EXCEPT
                     !.i = @ + n,
                     !.short = IF n < Offered(lcd) THEN @ + 1 ELSE @,
                     !.bus = Append(@, [ stage   |-> lcd.stage,
                                         from    |-> lcd.chunk + lcd.i,
                                         n       |-> n,
                                         offered |-> Offered(lcd),
                                         dc      |-> lcd.dc ])]
    /\ UNCHANGED <<lexVars, term, out, enc>>

\* spi.write reported 0 bytes: break.
lcd_write_Break ==
    /\ lcd.pc = "spi.write"
    /\ 0 \in Written(lcd, Offered(lcd))
    /\ lcd' = NextChunk([lcd EXCEPT
                           !.short = IF Offered(lcd) > 0 THEN @ + 1 ELSE @])
    /\ UNCHANGED <<lexVars, term, out, enc>>

LcdNext ==
    \/ set_data
    \/ lcd_write_Err
    \/ lcd_write_Wrote
    \/ lcd_write_Break

LcdSpec == LcdInit /\ [][LcdNext]_vars

\* The number of bytes of one stage that the bus took, by the log.
RECURSIVE BytesOf(_, _)
BytesOf(bus, stage) ==
    IF bus = <<>>
    THEN 0
    ELSE (IF Head(bus).stage = stage THEN Head(bus).n ELSE 0)
         + BytesOf(Tail(bus), stage)

\* C37: lcd_write sends every byte of its data exactly once and in order, in
\* SPI writes of at most 4096 bytes: each write that wrote something starts
\* at the first byte not yet written, and once Ok was returned all bytes of
\* every lcd_write were written.
C37_EveryByteOnceInOrder ==
    /\ \A k \in DOMAIN lcd.bus :
           /\ lcd.bus[k].offered <= ChunkSize
           /\ lcd.bus[k].from =
                  BytesOf(SubSeq(lcd.bus, 1, k - 1), lcd.bus[k].stage)
    /\ lcd.res = "ok" =>
           \A stage \in 1..Pixels :
               BytesOf(lcd.bus, stage) = StageLen(lcd, stage)

\* The bytes the bus took before the pixel data, each with the level DC had.
RECURSIVE OnBus(_)
OnBus(bus) ==
    IF bus = <<>>
    THEN <<>>
    ELSE (IF Head(bus).stage = Pixels
          THEN <<>>
          ELSE [j \in 1..Head(bus).n |->
                   [ byte |-> WindowBytes(Window)[Head(bus).stage]
                                                 [Head(bus).from + j],
                     dc   |-> Head(bus).dc ]])
         \o OnBus(Tail(bus))

Reg(byte) == [byte |-> byte, dc |-> "Low"]

Data(byte) == [byte |-> byte, dc |-> "High"]

\* C38: register bytes go out with DC low and data bytes with DC high, and
\* when a byte of pixel data is on the bus, the bus took before it exactly
\* 0x2a, four data bytes, 0x2b, four data bytes and 0x2c.
C38_WindowBeforePixels ==
    /\ \A k \in DOMAIN lcd.bus :
           lcd.bus[k].dc = IF lcd.bus[k].stage \in {1, 3, 5}
                           THEN "Low" ELSE "High"
    /\ (\E k \in DOMAIN lcd.bus : lcd.bus[k].stage = Pixels) =>
           LET w == WindowBytes(Window)
           IN  OnBus(lcd.bus) =
                   << Reg(42),
                      Data(w[2][1]), Data(w[2][2]), Data(w[2][3]), Data(w[2][4]),
                      Reg(43),
                      Data(w[4][1]), Data(w[4][2]), Data(w[4][3]), Data(w[4][4]),
                      Reg(44) >>

-----------------------------------------------------------------------------
\* The RGB565 encoding of a pixel (src/rpi/src/st7735s.rs 280-289).
\*
\* enc is one call of encode: the colour it is given and the two bytes it
\* returned.  The arithmetic is that of the code, on u16: shifts that drop
\* the bits they push out, bitwise or and bitwise and, and the casts to u8.

Channels == {0, 1, 3, 4, 7, 8, 127, 128, 248, 251, 252, 255}

RECURSIVE Pow2(_)
Pow2(k) == IF k = 0 THEN 1 ELSE 2 * Pow2(k - 1)

\* x >> k and x << k on u16.
Shr(x, k) == x \div Pow2(k)

Shl(x, k) == (x * Pow2(k)) % Pow2(16)

\* a | b and a & b.
RECURSIVE BitOr(_, _)
BitOr(a, b) ==
    IF a = 0 THEN b
    ELSE IF b = 0 THEN a
    ELSE (IF a % 2 = 1 \/ b % 2 = 1 THEN 1 ELSE 0)
         + 2 * BitOr(a \div 2, b \div 2)

RECURSIVE BitAnd(_, _)
BitAnd(a, b) ==
    IF a = 0 \/ b = 0 THEN 0
    ELSE (IF a % 2 = 1 /\ b % 2 = 1 THEN 1 ELSE 0)
         + 2 * BitAnd(a \div 2, b \div 2)

\* x as u8.
AsU8(x) == x % 256

encode_GreenShiftedBy6(rgb) ==
    LET pixel == BitOr(BitOr(Shl(Shr(rgb[1], 3), 11), Shl(Shr(rgb[2], 2), 6)),
                       Shr(rgb[3], 3))
        high  == AsU8(Shr(pixel, 8))
        low   == AsU8(BitAnd(pixel, 255))
    IN  <<high, low>>

encode(rgb) ==
    LET pixel == BitOr(BitOr(Shl(Shr(rgb[1], 3), 11), Shl(Shr(rgb[2], 2), 5)),
                       Shr(rgb[3], 3))
        high  == AsU8(Shr(pixel, 8))
        low   == AsU8(BitAnd(pixel, 255))
    IN  <<high, low>>

EncodeInit ==
    /\ \E r \in Channels, g \in Channels, b \in Channels :
           enc = [rgb |-> <<r, g, b>>, pixel |-> <<0, 0>>, returned |-> FALSE]
    /\ term = NotRunning /\ out = NotRunning /\ lcd = NotRunning
    /\ LexerUnused

encode_Call ==
    /\ ~enc.returned
    /\ enc' = [enc EXCEPT !.pixel = encode(enc.rgb), !.returned = TRUE]
    /\ UNCHANGED <<lexVars, term, out, lcd>>

EncodeNext == encode_Call

EncodeSpec == EncodeInit /\ [][EncodeNext]_vars

\* C39: encode returns [high, low] with high * 256 + low equal to
\* (r >> 3) * 2048 + (g >> 2) * 32 + (b >> 3); the value fits 16 bits and
\* the three fields do not overlap: its top 5 bits are r >> 3, the next 6
\* bits g >> 2 and the low 5 bits b >> 3.
C39_Rgb565 ==
    enc.returned =>
        LET r     == enc.rgb[1]
            g     == enc.rgb[2]
            b     == enc.rgb[3]
            high  == enc.pixel[1]
            low   == enc.pixel[2]
            value == high * 256 + low
        IN  /\ high \in 0..255 /\ low \in 0..255
            /\ value = (r \div 8) * 2048 + (g \div 4) * 32 + (b \div 8)
            /\ value < 65536
            /\ value \div 2048 = r \div 8
            /\ (value \div 32) % 64 = g \div 4
            /\ value % 32 = b \div 8

\* encode returned the two bytes of a colour with bits in all three fields.
C39_Witness ==
    /\ enc.returned
    /\ enc.rgb = <<255, 127, 8>>
    /\ enc.pixel = <<251, 225>>

=============================================================================
